---- MODULE Spec2Model ----
(***************************************************************************)
(* Field projection of a mock payload against a GraphQL operation          *)
(* (src/utils/internal/pickOperationFields.ts).                            *)
(*                                                                         *)
(* A payload is an object graph: `payload` maps object identities to their *)
(* own properties, and a property value is null, a string, a reference to  *)
(* an object of the graph or an array of such values.  References make     *)
(* cyclic payloads expressible.  A projected value is a tree: a projected  *)
(* object is a fresh map from keys to projected values.                    *)
(***************************************************************************)
EXTENDS Integers, Sequences, FiniteSets, TLC

VARIABLES
    payload,        \* the object graph handed to pickOperationFields as `data`
    documentNode,   \* the parsed document (a sequence of definitions)
    operationName,  \* "" stands for null / undefined / the empty string
    variables,      \* the request's variables: a map from names to booleans
    schema,         \* "dummy" (no schema passed) or "real" (a GraphQLSchema)
    result,         \* what the call returned or threw
    repeated,       \* what a second call with the same arguments returned or threw
    request,        \* the intercepted request (method, public URL, search parameters, body)
    registration,   \* the arguments the GraphQLHandler was constructed with
    handler,        \* the GraphQLHandler under test (its info and endpoint), or what its constructor threw
    parsedResult,   \* what parseGraphQLRequest / GraphQLHandler.parse returned or threw
    matched,        \* what GraphQLHandler.predicate / test returned
    console,        \* the messages written with console.error and devUtils.warn
    response,       \* the mocked response: its body and its content-type header
    applied,        \* the context contributions applied to the response, in order
    pc              \* the position of the scenario ("ready" before a call, "done" after it)

projectorVars == <<payload, documentNode, operationName, variables, schema, result, repeated>>
requestVars == <<request, registration, handler, parsedResult, matched, console>>
responseVars == <<response, applied>>
vars == <<projectorVars, requestVars, responseVars, pc>>

----------------------------------------------------------------------------
(* Bounds *)

\* longest array enumerated in a payload
MaxArrLen == 2
\* depth of the call stack of the JavaScript runtime, counted in nested
\* pickSelectionSet frames; exceeding it is a RangeError
MaxCallDepth == 6

----------------------------------------------------------------------------
(* Values *)

Null == [t |-> "null"]
Undefined == [t |-> "undefined"]
Str(s) == [t |-> "string", s |-> s]
Ref(o) == [t |-> "ref", o |-> o]
Arr(e) == [t |-> "array", e |-> e]
Obj(f) == [t |-> "object", f |-> f]
Throw(m) == [t |-> "throw", msg |-> m]
RangeError == Throw("Maximum call stack size exceeded")

IsThrow(v) == v.t = "throw"

\* Body of a value that is evaluated once, as a local constant of the code is
Bind(value, Body(_)) == CHOOSE outcome \in {Body(x) : x \in {value}} : TRUE

\* the value of a variable that holds the outcome of a call not made (yet)
NotCalled == [t |-> "none"]

EmptyMap == [k \in {} |-> Null]

\* data[name] on a plain object: undefined when the property is missing
Get(obj, name) == IF name \in DOMAIN obj THEN obj[name] ELSE Undefined

----------------------------------------------------------------------------
(* Documents *)

None == ""

Field(name, sel) ==
    [kind |-> "Field", name |-> name, alias |-> None, skip |-> None,
     include |-> None, typeCondition |-> None, selectionSet |-> sel]
Aliased(alias, name, sel) ==
    [kind |-> "Field", name |-> name, alias |-> alias, skip |-> None,
     include |-> None, typeCondition |-> None, selectionSet |-> sel]
Directed(name, skip, include, sel) ==
    [kind |-> "Field", name |-> name, alias |-> None, skip |-> skip,
     include |-> include, typeCondition |-> None, selectionSet |-> sel]
Spread(name) ==
    [kind |-> "FragmentSpread", name |-> name, alias |-> None, skip |-> None,
     include |-> None, typeCondition |-> None, selectionSet |-> <<>>]
Inline(typeCondition, sel) ==
    [kind |-> "InlineFragment", name |-> None, alias |-> None, skip |-> None,
     include |-> None, typeCondition |-> typeCondition, selectionSet |-> sel]
InlineDirected(typeCondition, skip, include, sel) ==
    [kind |-> "InlineFragment", name |-> None, alias |-> None, skip |-> skip,
     include |-> include, typeCondition |-> typeCondition,
     selectionSet |-> sel]

\* $name: type, $name: type!, $name: type = defaultValue
VariableDefinition(name, type, nonNull, defaultValue) ==
    [name |-> name, type |-> type, nonNull |-> nonNull,
     defaultValue |-> defaultValue]

OperationWith(operation, name, variableDefinitions, sel) ==
    [kind |-> "OperationDefinition", operation |-> operation, name |-> name,
     typeCondition |-> None, variableDefinitions |-> variableDefinitions,
     selectionSet |-> sel]
Operation(operation, name, sel) == OperationWith(operation, name, <<>>, sel)
Fragment(name, typeCondition, sel) ==
    [kind |-> "FragmentDefinition", operation |-> None, name |-> name,
     typeCondition |-> typeCondition, variableDefinitions |-> <<>>,
     selectionSet |-> sel]

----------------------------------------------------------------------------
(* Schemas *)

dummySchema == "dummy"
realSchema == "real"

NoType == ""

\* Every GraphQLSchema holds the types its introspection system and its
\* specified directives refer to, so getType resolves them in any schema.
IntrospectionTypes == {"String", "Boolean"}

\* The types of new GraphQLSchema({ types: [Account, Business] }).
RealTypes == {"Account", "Business"}

getType(sch, name) ==
    IF name \in IntrospectionTypes THEN name
    ELSE IF sch = realSchema /\ name \in RealTypes THEN name
    ELSE NoType

\* Neither schema declares a query, mutation or subscription root type.
getRootType(sch, operation) == NoType

----------------------------------------------------------------------------
(* extractDefinitions *)

anonymousOperationKey == "__anonymous_operation"

isFragmentDefinition(definition) == definition.kind = "FragmentDefinition"

isOperationDefinition(definition) == definition.kind = "OperationDefinition"

\* the last definition of the document that has the key wins
LastWith(defs, Test(_)) ==
    defs[CHOOSE j \in 1..Len(defs) :
            /\ Test(defs[j])
            /\ \A k \in (j+1)..Len(defs) : ~Test(defs[k])]

OperationKey(definition) ==
    IF definition.name = None THEN anonymousOperationKey ELSE definition.name

extractDefinitions(doc) ==
    LET fragNames == {doc[j].name : j \in {k \in 1..Len(doc) : isFragmentDefinition(doc[k])}}
        opKeys == {OperationKey(doc[j]) : j \in {k \in 1..Len(doc) : isOperationDefinition(doc[k])}}
    IN [fragments |->
            [n \in fragNames |->
                LET T(d) == isFragmentDefinition(d) /\ d.name = n
                IN LastWith(doc, T)],
        operations |->
            [n \in opKeys |->
                LET T(d) == isOperationDefinition(d) /\ OperationKey(d) = n
                IN LastWith(doc, T)]]

----------------------------------------------------------------------------
(* collectFields (graphql/execution/collectFields) *)

\* The value of the `if` argument of a directive: a literal or a variable.
\* A variable without a runtime value makes getDirectiveValues throw.
ArgThrows(arg, variableValues) ==
    arg \notin {None, "true", "false"} /\ arg \notin DOMAIN variableValues

ArgValue(arg, variableValues) ==
    IF arg = "true" THEN TRUE
    ELSE IF arg = "false" THEN FALSE
    ELSE variableValues[arg]

MissingVariable(arg) ==
    "Argument \"if\" of required type \"Boolean!\" was provided the variable \"$"
    \o arg \o "\" which was not provided a runtime value."

\* shouldIncludeNode with @include read first and a true @include keeping
\* the node whatever @skip says
shouldIncludeNode_IncludeFirst(variableValues, node) ==
    IF ArgThrows(node.include, variableValues)
    THEN [keep |-> FALSE, err |-> MissingVariable(node.include)]
    ELSE IF node.include # None /\ ArgValue(node.include, variableValues) = TRUE
    THEN [keep |-> TRUE, err |-> None]
    ELSE IF node.include # None
    THEN [keep |-> FALSE, err |-> None]
    ELSE IF ArgThrows(node.skip, variableValues)
    THEN [keep |-> FALSE, err |-> MissingVariable(node.skip)]
    ELSE IF node.skip # None /\ ArgValue(node.skip, variableValues) = TRUE
    THEN [keep |-> FALSE, err |-> None]
    ELSE [keep |-> TRUE, err |-> None]

\* err is the message thrown when a directive's variable has no runtime
\* value; otherwise keep tells whether the node stays
shouldIncludeNode(variableValues, node) ==
    IF ArgThrows(node.skip, variableValues)
    THEN [keep |-> FALSE, err |-> MissingVariable(node.skip)]
    ELSE IF node.skip # None /\ ArgValue(node.skip, variableValues) = TRUE
    THEN [keep |-> FALSE, err |-> None]
    ELSE IF ArgThrows(node.include, variableValues)
    THEN [keep |-> FALSE, err |-> MissingVariable(node.include)]
    ELSE IF node.include # None /\ ArgValue(node.include, variableValues) = FALSE
    THEN [keep |-> FALSE, err |-> None]
    ELSE [keep |-> TRUE, err |-> None]

\* doesFragmentConditionMatch that never looks at the type condition
doesFragmentConditionMatch_Always(sch, fragment, runtimeType) == TRUE

\* typeFromAST(schema, typeCondition) === runtimeType; no abstract types exist
doesFragmentConditionMatch(sch, fragment, runtimeType) ==
    IF fragment.typeCondition = None THEN TRUE
    ELSE getType(sch, fragment.typeCondition) = runtimeType

getFieldEntryKey(node) == IF node.alias # None THEN node.alias ELSE node.name

\* fields.get(name).push(selection) or fields.set(name, [selection])
AddField(fields, key, node) ==
    IF \E j \in 1..Len(fields) : fields[j].key = key
    THEN [j \in 1..Len(fields) |->
            IF fields[j].key = key
            THEN [fields[j] EXCEPT !.nodes = Append(@, node)]
            ELSE fields[j]]
    ELSE Append(fields, [key |-> key, nodes |-> <<node>>])

RECURSIVE collectFieldsImpl(_, _, _, _, _, _, _)
collectFieldsImpl(sch, fragments, variableValues, runtimeType, selections, i, acc) ==
    IF i > Len(selections) \/ acc.err # None THEN acc
    ELSE
    LET selection == selections[i]
        inc == shouldIncludeNode(variableValues, selection)
        next(a) == collectFieldsImpl(sch, fragments, variableValues,
                                     runtimeType, selections, i + 1, a)
    IN
    IF selection.kind = "Field" THEN
        IF inc.err # None THEN [acc EXCEPT !.err = inc.err]
        ELSE IF ~inc.keep THEN next(acc)
        ELSE next([acc EXCEPT !.fields =
                        AddField(@, getFieldEntryKey(selection), selection)])
    ELSE IF selection.kind = "InlineFragment" THEN
        IF inc.err # None THEN [acc EXCEPT !.err = inc.err]
        ELSE IF ~inc.keep \/ ~doesFragmentConditionMatch(sch, selection, runtimeType)
        THEN next(acc)
        ELSE next(collectFieldsImpl(sch, fragments, variableValues,
                                    runtimeType, selection.selectionSet, 1, acc))
    ELSE \* FragmentSpread
        IF selection.name \in acc.visited THEN next(acc)
        ELSE IF inc.err # None THEN [acc EXCEPT !.err = inc.err]
        ELSE IF ~inc.keep THEN next(acc)
        ELSE
        LET seen == [acc EXCEPT !.visited = @ \cup {selection.name}]
        IN IF selection.name \notin DOMAIN fragments
              \/ ~doesFragmentConditionMatch(sch, fragments[selection.name],
                                             runtimeType)
           THEN next(seen)
           ELSE next(collectFieldsImpl(sch, fragments, variableValues,
                                       runtimeType,
                                       fragments[selection.name].selectionSet,
                                       1, seen))

\* The map from response keys to field nodes, in insertion order.
collectFields(sch, fragments, variableValues, runtimeType, selectionSet) ==
    collectFieldsImpl(sch, fragments, variableValues, runtimeType,
                      selectionSet, 1,
                      [fields |-> <<>>, visited |-> {}, err |-> None])

----------------------------------------------------------------------------
(* pickField / pickSelectionSet / pickOperationFields *)

\* Array.from(fieldMap.values()) followed by the inner forEach: every field
\* node, in the order the two loops visit them
RECURSIVE FieldNodes(_)
FieldNodes(fields) ==
    IF fields = <<>> THEN <<>>
    ELSE Head(fields).nodes \o FieldNodes(Tail(fields))

InferError(fieldPath) ==
    "Unable to infer object type. Ensure \"" \o fieldPath
    \o "\" includes __typename."

\* typeof fieldData === 'object' && fieldData !== null, for a value that is
\* not an array
IsObject(fieldData) == fieldData.t = "ref"

\* typeof fieldData.__typename === 'string' ? schema.getType(...) : undefined
RuntimeObject(heap, sch, obj) ==
    LET typename == Get(heap[obj], "__typename")
    IN IF typename.t = "string" THEN getType(sch, typename.s) ELSE NoType

RECURSIVE pickSelectionSet(_, _, _, _, _, _, _, _, _)
RECURSIVE pickField(_, _, _, _, _, _, _, _)
RECURSIVE pickItems(_, _, _, _, _, _, _, _, _, _)
RECURSIVE pickNodes(_, _, _, _, _, _, _, _, _, _)

\* pickField without the check that the runtime type was inferred
pickField_NoInference(heap, fieldPath, fieldNode, fieldData, sch, fragments, variableValues, depth) ==
    IF fieldNode.selectionSet # <<>> /\ IsObject(fieldData)
    THEN pickSelectionSet(heap, fieldPath, fieldData.o, fieldNode.selectionSet,
                          sch, fragments, variableValues,
                          RuntimeObject(heap, sch, fieldData.o), depth)
    ELSE fieldData

\* a copy of an object of the payload with everything it refers to
RECURSIVE CopyObject(_, _, _)
CopyValue(heap, value, depth) ==
    IF value.t = "ref" THEN CopyObject(heap, value.o, depth)
    ELSE IF value.t = "array"
    THEN LET items == [j \in 1..Len(value.e) |->
                          IF value.e[j].t = "ref"
                          THEN CopyObject(heap, value.e[j].o, depth)
                          ELSE value.e[j]]
         IN IF \E j \in 1..Len(items) : IsThrow(items[j])
            THEN RangeError ELSE Arr(items)
    ELSE value

CopyObject(heap, obj, depth) ==
    IF depth >= MaxCallDepth THEN RangeError
    ELSE LET copy == [k \in DOMAIN heap[obj] |->
                         CopyValue(heap, heap[obj][k], depth + 1)]
         IN IF \E k \in DOMAIN copy : IsThrow(copy[k])
            THEN RangeError ELSE Obj(copy)

\* pickField that copies an object selected without a sub-selection instead
\* of returning it
pickField_DeepCopy(heap, fieldPath, fieldNode, fieldData, sch, fragments, variableValues, depth) ==
    IF fieldNode.selectionSet # <<>> /\ IsObject(fieldData)
    THEN
        IF sch # dummySchema /\ RuntimeObject(heap, sch, fieldData.o) = NoType
        THEN Throw(InferError(fieldPath))
        ELSE pickSelectionSet(heap, fieldPath, fieldData.o,
                              fieldNode.selectionSet, sch, fragments,
                              variableValues,
                              RuntimeObject(heap, sch, fieldData.o), depth)
    ELSE CopyValue(heap, fieldData, depth)

\* pickField that asks for the runtime type of null as it does of an object
pickField_NullInferred(heap, fieldPath, fieldNode, fieldData, sch, fragments, variableValues, depth) ==
    IF fieldNode.selectionSet # <<>> /\ fieldData.t \in {"ref", "null"}
    THEN
        IF sch # dummySchema
           /\ (fieldData.t = "null" \/ RuntimeObject(heap, sch, fieldData.o) = NoType)
        THEN Throw(InferError(fieldPath))
        ELSE IF fieldData.t = "null" THEN Obj(EmptyMap)
        ELSE pickSelectionSet(heap, fieldPath, fieldData.o,
                              fieldNode.selectionSet, sch, fragments,
                              variableValues,
                              RuntimeObject(heap, sch, fieldData.o), depth)
    ELSE fieldData

\* fieldData.map that leaves out the items that are null
pickItems_WithoutNull(heap, path, fieldNode, items, i, done, sch, fragments, variableValues, depth) ==
    IF i > Len(items) THEN Arr(done)
    ELSE
    LET item == pickField(heap,
                          path \o "." \o fieldNode.name \o "["
                               \o ToString(i - 1) \o "]",
                          fieldNode, items[i], sch, fragments, variableValues,
                          depth)
    IN IF IsThrow(item) THEN item
       ELSE pickItems(heap, path, fieldNode, items, i + 1,
                      IF item = Null THEN done ELSE Append(done, item),
                      sch, fragments, variableValues, depth)

\* the forEach loops storing each pick under the response key of its node:
\* the alias when the node has one
pickNodes_ByResponseKey(heap, path, data, nodes, i, pickedData, sch, fragments, variableValues, depth) ==
    IF i > Len(nodes) THEN Obj(pickedData)
    ELSE
    LET fieldNode == nodes[i]
        fieldData == Get(heap[data], fieldNode.name)
        picked ==
            IF fieldData.t = "array"
            THEN pickItems(heap, path, fieldNode, fieldData.e, 1, <<>>, sch,
                           fragments, variableValues, depth)
            ELSE pickField(heap, path \o "." \o fieldNode.name, fieldNode,
                           fieldData, sch, fragments, variableValues, depth)
    IN IF IsThrow(picked) THEN picked
       ELSE pickNodes(heap, path, data, nodes, i + 1,
                      (getFieldEntryKey(fieldNode) :> picked) @@ pickedData,
                      sch, fragments, variableValues, depth)

pickField(heap, fieldPath, fieldNode, fieldData, sch, fragments, variableValues, depth) ==
    IF fieldNode.selectionSet # <<>> /\ IsObject(fieldData)
    THEN
        LET runtimeObject == RuntimeObject(heap, sch, fieldData.o)
        IN IF sch # dummySchema /\ runtimeObject = NoType
           THEN Throw(InferError(fieldPath))
           ELSE pickSelectionSet(heap, fieldPath, fieldData.o,
                                 fieldNode.selectionSet, sch, fragments,
                                 variableValues, runtimeObject, depth)
    ELSE fieldData

\* fieldData.map((fieldItemData, i) => pick(fieldNode, fieldItemData,
\* `${path}.${name}[${i}]`)): items from index i on, the first throw aborts
pickItems(heap, path, fieldNode, items, i, done, sch, fragments, variableValues, depth) ==
    IF i > Len(items) THEN Arr(done)
    ELSE
    LET item == pickField(heap,
                          path \o "." \o fieldNode.name \o "["
                               \o ToString(i - 1) \o "]",
                          fieldNode, items[i], sch, fragments, variableValues,
                          depth)
    IN IF IsThrow(item) THEN item
       ELSE pickItems(heap, path, fieldNode, items, i + 1, Append(done, item),
                      sch, fragments, variableValues, depth)

\* the two forEach loops over the field nodes: node i on, pickedData so far
pickNodes(heap, path, data, nodes, i, pickedData, sch, fragments, variableValues, depth) ==
    IF i > Len(nodes) THEN Obj(pickedData)
    ELSE
    LET fieldNode == nodes[i]
        fieldData == Get(heap[data], fieldNode.name)
        picked ==
            IF fieldData.t = "array"
            THEN pickItems(heap, path, fieldNode, fieldData.e, 1, <<>>, sch,
                           fragments, variableValues, depth)
            ELSE pickField(heap, path \o "." \o fieldNode.name, fieldNode,
                           fieldData, sch, fragments, variableValues, depth)
    IN IF IsThrow(picked) THEN picked
       ELSE pickNodes(heap, path, data, nodes, i + 1,
                      (fieldNode.name :> picked) @@ pickedData,
                      sch, fragments, variableValues, depth)

\* depth counts the pickSelectionSet frames on the stack
pickSelectionSet(heap, path, data, selectionSet, sch, fragments, variableValues, runtimeObject, depth) ==
    IF depth >= MaxCallDepth THEN RangeError
    ELSE
    LET fieldMap == collectFields(sch, fragments, variableValues,
                                  runtimeObject, selectionSet)
    IN IF fieldMap.err # None THEN Throw(fieldMap.err)
       ELSE pickNodes(heap, path, data, FieldNodes(fieldMap.fields), 1,
                      EmptyMap, sch, fragments, variableValues, depth + 1)

\* the object identity of the root of the payload
Root == 1

pickOperationFields(heap, doc, opName, variableValues, sch) ==
    LET defs == extractDefinitions(doc)
        key == IF opName # None THEN opName ELSE anonymousOperationKey
    IN IF key \notin DOMAIN defs.operations
       THEN Throw(IF opName # None
                  THEN "Unable to find operation named \"" \o opName \o "\""
                  ELSE "Unable to find anonymous query, pass operationName to choose an operation")
       ELSE pickSelectionSet(heap, "data", Root,
                             defs.operations[key].selectionSet, sch,
                             defs.fragments, variableValues,
                             getRootType(sch, defs.operations[key].operation),
                             0)

----------------------------------------------------------------------------
(* The documents *)

\* query { user { __typename id employer { id } }
\*         business { type employees { name employer { id } } } }
DeepQuery ==
    <<Operation("query", None,
        <<Field("user", <<Field("__typename", <<>>), Field("id", <<>>),
                          Field("employer", <<Field("id", <<>>)>>)>>),
          Field("business", <<Field("type", <<>>),
                              Field("employees",
                                    <<Field("name", <<>>),
                                      Field("employer", <<Field("id", <<>>)>>)>>)>>)>>)>>

\* query { user { id @include(if: $i) @skip(if: $s) name @skip(if: false) } }
DirectiveQuery ==
    <<Operation("query", None,
        <<Field("user", <<Directed("id", "s", "i", <<>>),
                          Directed("name", "false", None, <<>>)>>)>>)>>

\* query { user { ...UserFields } business { ...BusinessFields } }
\* fragment UserFields on Account { name employer { ...BusinessFields } }
\* fragment BusinessFields on Business { id type employees { ...EmployeeFields } }
\* fragment EmployeeFields on Account { id employer { id } }
FragmentQuery ==
    <<Operation("query", None,
        <<Field("user", <<Spread("UserFields")>>),
          Field("business", <<Spread("BusinessFields")>>)>>),
      Fragment("UserFields", "Account",
        <<Field("name", <<>>),
          Field("employer", <<Spread("BusinessFields")>>)>>),
      Fragment("BusinessFields", "Business",
        <<Field("id", <<>>), Field("type", <<>>),
          Field("employees", <<Spread("EmployeeFields")>>)>>),
      Fragment("EmployeeFields", "Account",
        <<Field("id", <<>>), Field("employer", <<Field("id", <<>>)>>)>>)>>

\* query { user { ...UserFields ... on Business { id type } } }
\* fragment UserFields on Account { id name }
ConditionalQuery ==
    <<Operation("query", None,
        <<Field("user", <<Spread("UserFields"),
                          Inline("Business", <<Field("id", <<>>),
                                               Field("type", <<>>)>>)>>)>>),
      Fragment("UserFields", "Account",
        <<Field("id", <<>>), Field("name", <<>>)>>)>>

\* query { user { name } user { id } }
RepeatedFieldQuery ==
    <<Operation("query", None,
        <<Field("user", <<Field("name", <<>>)>>),
          Field("user", <<Field("id", <<>>)>>)>>)>>

\* query { ...F user { id } ...F }   fragment F on Query { user { name } }
RepeatedSpreadQuery ==
    <<Operation("query", None,
        <<Spread("F"), Field("user", <<Field("id", <<>>)>>), Spread("F")>>),
      Fragment("F", "Query", <<Field("user", <<Field("name", <<>>)>>)>>)>>

\* query { u: user { id } business }
AliasQuery ==
    <<Operation("query", None,
        <<Aliased("u", "user", <<Field("id", <<>>)>>),
          Field("business", <<>>)>>)>>

\* query A { user { id } }   mutation B { user { name } }
TwoNamedOperations ==
    <<Operation("query", "A", <<Field("user", <<Field("id", <<>>)>>)>>),
      Operation("mutation", "B", <<Field("user", <<Field("name", <<>>)>>)>>)>>

\* query { user { id } }   query A { user { name } }
AnonymousAndNamed ==
    <<Operation("query", None, <<Field("user", <<Field("id", <<>>)>>)>>),
      Operation("query", "A", <<Field("user", <<Field("name", <<>>)>>)>>)>>

\* query A { user { id } }
OneNamedOperation ==
    <<Operation("query", "A", <<Field("user", <<Field("id", <<>>)>>)>>)>>

\* query __anonymous_operation { user { id } }
ReservedNameOperation ==
    <<Operation("query", anonymousOperationKey,
                <<Field("user", <<Field("id", <<>>)>>)>>)>>

Documents ==
    {DeepQuery, DirectiveQuery, FragmentQuery, ConditionalQuery,
     RepeatedFieldQuery, RepeatedSpreadQuery, AliasQuery, TwoNamedOperations,
     AnonymousAndNamed, OneNamedOperation, ReservedNameOperation}

\* the variables the directives of a selection set refer to
RECURSIVE VariablesOf(_)
VariablesOf(selections) ==
    IF selections = <<>> THEN {}
    ELSE LET s == Head(selections)
         IN ({s.skip, s.include} \ {None, "true", "false"})
            \cup VariablesOf(s.selectionSet)
            \cup VariablesOf(Tail(selections))

DocumentVariables(doc) ==
    UNION {VariablesOf(doc[j].selectionSet) : j \in 1..Len(doc)}

\* A request gives a boolean to some or all of the variables its document
\* uses; variables the document never reads cannot change the projection.
VariableChoices(doc) ==
    UNION {[names -> BOOLEAN] : names \in SUBSET DocumentVariables(doc)}

\* no name, the name of an operation of the document, a name of none of
\* them, or the reserved key
OperationNameChoices(doc) ==
    {None, "Unknown", anonymousOperationKey}
    \cup {doc[j].name : j \in {k \in 1..Len(doc) : isOperationDefinition(doc[k])}}

----------------------------------------------------------------------------
(* The payloads *)

Account == 2
Business == 3

\* employees: the first n items of  null, account, business, account, ...
Employees(n) ==
    [j \in 1..n |-> IF j = 1 THEN Null
                    ELSE IF j % 2 = 0 THEN Ref(Account) ELSE Ref(Business)]

Typenames == {None, "Account", "Business", "String", "Nope"}

WithTypename(typename, obj) ==
    IF typename = None THEN obj
    ELSE ("__typename" :> Str(typename)) @@ obj

WithName(name, obj) ==
    IF name = None THEN obj ELSE ("name" :> Str(name)) @@ obj

Payloads ==
    {  (Root :> [user |-> user, business |-> Ref(Business), unknown |-> Null])
    @@ (Account :>
            WithTypename(accountType,
                WithName(name, [id |-> Str("a1"), employer |-> employer])))
    @@ (Business :>
            WithTypename(businessType,
                [id |-> Str("b1"), type |-> Str("SME"),
                 employees |-> Arr(Employees(n))]))
     : user \in {Null, Ref(Account)},
       accountType \in Typenames,
       name \in {None, "Jack"},
       employer \in {Null, Ref(Business), Ref(Account)},
       businessType \in {None, "Business"},
       n \in 0..MaxArrLen}

----------------------------------------------------------------------------
(* What the call was given and what it did, as the claims speak of it *)

Done == pc = "done"

Returned == Done /\ result.t = "object"

Definitions == extractDefinitions(documentNode)

\* the operation the call projects against, when it finds one
OperationKeyOf(opName) == IF opName # None THEN opName ELSE anonymousOperationKey

OperationSelected ==
    Definitions.operations[OperationKeyOf(operationName)]

\* every variable a directive of the document reads has a runtime value
VariablesSupplied == DocumentVariables(documentNode) \subseteq DOMAIN variables

\* The directive table: a node is removed by @skip(if: true) and by
\* @include(if: false), and kept otherwise.
Keeps(node, variableValues) ==
    /\ node.skip = None \/ ArgValue(node.skip, variableValues) = FALSE
    /\ node.include = None \/ ArgValue(node.include, variableValues) = TRUE

TypeConditions == {"Account", "Business", "Query", "String", "Nope"}

\* The field nodes a selection set reaches for an object: its fields, and
\* the fields of the fragments and inline fragments that the directive table
\* keeps and whose type condition is absent or in `matching`, fragments
\* spreading fragments included.
RECURSIVE Reached(_, _, _, _)
Reached(fragments, variableValues, selections, matching) ==
    IF selections = <<>> THEN <<>>
    ELSE
    LET s == Head(selections)
        rest == Reached(fragments, variableValues, Tail(selections), matching)
        applies(tc) == tc = None \/ tc \in matching
    IN IF s.kind = "Field" THEN <<s>> \o rest
       ELSE IF ~Keeps(s, variableValues) THEN rest
       ELSE IF s.kind = "InlineFragment"
       THEN IF applies(s.typeCondition)
            THEN Reached(fragments, variableValues, s.selectionSet, matching)
                 \o rest
            ELSE rest
       ELSE IF s.name \in DOMAIN fragments
               /\ applies(fragments[s.name].typeCondition)
            THEN Reached(fragments, variableValues,
                         fragments[s.name].selectionSet, matching) \o rest
            ELSE rest

\* the reached field nodes that the directive table keeps
Effective(fragments, variableValues, selections, matching) ==
    LET kept(n) == Keeps(n, variableValues)
    IN SelectSeq(Reached(fragments, variableValues, selections, matching), kept)

\* the type conditions that name the runtime type in the schema
Matching(sch, runtimeObject) ==
    {tc \in TypeConditions : getType(sch, tc) = runtimeObject}

Range(seq) == {seq[j] : j \in 1..Len(seq)}

FieldNames(nodes) == {n.name : n \in Range(nodes)}

\* the sub-selections of all the nodes named `name`, merged into one
RECURSIVE MergedSelection(_, _)
MergedSelection(nodes, name) ==
    IF nodes = <<>> THEN <<>>
    ELSE (IF Head(nodes).name = name THEN Head(nodes).selectionSet ELSE <<>>)
         \o MergedSelection(Tail(nodes), name)

\* the last of the field nodes with the name: the one whose pick stays in
\* pickedData
LastNamed(nodes, name) ==
    nodes[CHOOSE j \in 1..Len(nodes) :
            /\ nodes[j].name = name
            /\ \A k \in (j+1)..Len(nodes) : nodes[k].name # name]

\* Every pickSelectionSet frame that contributed an object to the result:
\* the payload object, the selection set and runtime type it was called
\* with, its access path and the object it returned.
RECURSIVE Visits(_, _, _, _, _, _, _, _, _)
VisitsValue(heap, fragments, variableValues, sch, value, node, path, res) ==
    IF value.t = "ref" /\ res.t = "object" /\ node.selectionSet # <<>>
    THEN Visits(heap, fragments, variableValues, sch, value.o,
                node.selectionSet, RuntimeObject(heap, sch, value.o), path, res)
    ELSE {}

Visits(heap, fragments, variableValues, sch, obj, selectionSet, runtimeObject, path, res) ==
    LET nodes == FieldNodes(collectFields(sch, fragments, variableValues,
                                          runtimeObject, selectionSet).fields)
        below(k) ==
            LET node == LastNamed(nodes, k)
                value == Get(heap[obj], k)
                sub == res.f[k]
            IN IF value.t = "array" /\ sub.t = "array"
               THEN UNION {VisitsValue(heap, fragments, variableValues, sch,
                                       value.e[j], node,
                                       path \o "." \o k \o "["
                                            \o ToString(j - 1) \o "]",
                                       sub.e[j])
                           : j \in 1..Len(value.e)}
               ELSE VisitsValue(heap, fragments, variableValues, sch, value,
                                node, path \o "." \o k, sub)
    IN {[obj |-> obj, selectionSet |-> selectionSet,
         runtimeObject |-> runtimeObject, path |-> path, res |-> res]}
       \cup UNION {below(k) : k \in DOMAIN res.f}

\* the frames of the call the model made; empty unless it returned
Frames ==
    IF Returned
    THEN Visits(payload, Definitions.fragments, variables, schema, Root,
                OperationSelected.selectionSet,
                getRootType(schema, OperationSelected.operation), "data",
                result)
    ELSE {}

----------------------------------------------------------------------------
(* The call *)

\* an object that is not part of the payload: the pickedData a
\* pickSelectionSet call creates (const pickedData = {})
NewObject == 0

\* a projector that filters `data` in place: the assignments go to `data`
pickedDataOf_Data(data) == data

\* The object the assignments of a pickSelectionSet call on `data` store
\* into: pickedData[fieldNode.name.value] = ..., never data[...] = ...
pickedDataOf(data) == NewObject

\* The payload after a call that returned res: every pickSelectionSet frame
\* has assigned its picked fields to the object it stores into; arrays are
\* mapped into new arrays.  Nothing else in the call assigns to an object.
payloadAfter(heap, doc, opName, variableValues, sch, res) ==
    IF res.t # "object" THEN heap
    ELSE
    LET defs == extractDefinitions(doc)
        operation == defs.operations[IF opName # None THEN opName
                                     ELSE anonymousOperationKey]
        frames == Visits(heap, defs.fragments, variableValues, sch, Root,
                         operation.selectionSet,
                         getRootType(sch, operation.operation), "data", res)
        storing(o) == {f \in frames : pickedDataOf(f.obj) = o}
    IN [o \in DOMAIN heap |->
          IF storing(o) = {} THEN heap[o]
          ELSE LET f == CHOOSE g \in storing(o) : TRUE
               IN f.res.f @@ heap[o]]

\* the other scenarios of this module are not running
RequestIdle ==
    /\ request = NotCalled
    /\ registration = NotCalled
    /\ handler = NotCalled
    /\ parsedResult = NotCalled
    /\ matched = NotCalled
    /\ console = <<>>

ResponseIdle ==
    /\ response = NotCalled
    /\ applied = <<>>

Init ==
    /\ payload \in Payloads
    /\ documentNode \in Documents
    /\ operationName \in OperationNameChoices(documentNode)
    /\ variables \in VariableChoices(documentNode)
    /\ schema \in {dummySchema, realSchema}
    /\ result = NotCalled
    /\ repeated = NotCalled
    /\ RequestIdle
    /\ ResponseIdle
    /\ pc = "ready"

\* pickOperationFields(data, documentNode, operationName, variables, schema)
Pick ==
    /\ pc = "ready"
    /\ result' = pickOperationFields(payload, documentNode, operationName,
                                     variables, schema)
    /\ payload' = payloadAfter(payload, documentNode, operationName,
                               variables, schema, result')
    /\ pc' = "done"
    /\ UNCHANGED <<documentNode, operationName, variables, schema, repeated,
                   requestVars, responseVars>>

\* a second pickOperationFields call with the same arguments, on the payload
\* as the first call left it
PickAgain ==
    /\ pc = "done"
    /\ repeated' = pickOperationFields(payload, documentNode, operationName,
                                       variables, schema)
    /\ payload' = payloadAfter(payload, documentNode, operationName,
                               variables, schema, repeated')
    /\ pc' = "repeated"
    /\ UNCHANGED <<documentNode, operationName, variables, schema, result,
                   requestVars, responseVars>>

Next == Pick \/ PickAgain

Spec == Init /\ [][Next]_vars

----------------------------------------------------------------------------
(* The projection the specification describes *)

\* Restrict an object to the fields its selection set names, every fragment
\* applied whatever its type condition; a field named several times is
\* projected against the union of its sub-selections.
RECURSIVE Projection(_, _, _, _, _)
ProjectionOfValue(heap, fragments, variableValues, value, selections) ==
    IF selections # <<>> /\ value.t = "ref"
    THEN Projection(heap, fragments, variableValues, value.o, selections)
    ELSE value

Projection(heap, fragments, variableValues, obj, selections) ==
    LET nodes == Effective(fragments, variableValues, selections, TypeConditions)
        present == FieldNames(nodes) \cap DOMAIN heap[obj]
    IN Obj([k \in present |->
              LET value == heap[obj][k]
                  sub == MergedSelection(nodes, k)
              IN IF value.t = "array"
                 THEN Arr([j \in 1..Len(value.e) |->
                             ProjectionOfValue(heap, fragments, variableValues,
                                               value.e[j], sub)])
                 ELSE ProjectionOfValue(heap, fragments, variableValues,
                                        value, sub)])

\* every field the selection set names, at every depth, is an own property
\* of the payload object it is read from
RECURSIVE AllPresent(_, _, _, _, _)
AllPresentInValue(heap, fragments, variableValues, value, selections) ==
    selections # <<>> /\ value.t = "ref"
        => AllPresent(heap, fragments, variableValues, value.o, selections)

AllPresent(heap, fragments, variableValues, obj, selections) ==
    LET nodes == Effective(fragments, variableValues, selections, TypeConditions)
    IN \A k \in FieldNames(nodes) :
        /\ k \in DOMAIN heap[obj]
        /\ LET value == heap[obj][k]
               sub == MergedSelection(nodes, k)
           IN IF value.t = "array"
              THEN \A j \in 1..Len(value.e) :
                      AllPresentInValue(heap, fragments, variableValues,
                                        value.e[j], sub)
              ELSE AllPresentInValue(heap, fragments, variableValues,
                                     value, sub)

\* the call was made without a schema, found its operation and had a value
\* for every variable
SchemalessCall ==
    /\ Done
    /\ schema = dummySchema
    /\ OperationKeyOf(operationName) \in DOMAIN Definitions.operations
    /\ VariablesSupplied

----------------------------------------------------------------------------
(* Claims *)

\* C1: without a schema, when every field the selection set names is present
\* on the payload, the call returns exactly the named keys, each with the
\* payload's value, at every depth of the selection.
C1_ExactProjection ==
    (/\ SchemalessCall
     /\ AllPresent(payload, Definitions.fragments, variables, Root,
                   OperationSelected.selectionSet))
    => result = Projection(payload, Definitions.fragments, variables, Root,
                           OperationSelected.selectionSet)


\* C2: a selected field that is not an own property of the payload object
\* has no key in the projected object.
C2_AbsentFieldOmitted ==
    \A fr \in Frames : DOMAIN fr.res.f \subseteq DOMAIN payload[fr.obj]

\* the objects a payload value holds, with the projected values at the same
\* positions: the value itself, or the items of an array
Pairs(value, projected) ==
    IF value.t = "array" /\ projected.t = "array"
    THEN {<<value.e[j], projected.e[j]>> : j \in 1..Len(value.e)}
    ELSE {<<value, projected>>}

\* C3: when a selection set names a response key twice with different
\* sub-selections, the projected sub-object has every field of either
\* sub-selection that the payload object has.
C3_RepeatedFieldsMerge ==
    \A fr \in Frames :
      LET fieldMap == collectFields(schema, Definitions.fragments, variables,
                                    fr.runtimeObject, fr.selectionSet).fields
      IN \A e \in 1..Len(fieldMap) :
         \A a, b \in Range(fieldMap[e].nodes) :
            (/\ a.selectionSet # b.selectionSet
             /\ a.selectionSet # <<>>
             /\ b.selectionSet # <<>>
             /\ a.name = b.name)
            => \A pair \in Pairs(Get(payload[fr.obj], a.name), fr.res.f[a.name]) :
                 (pair[1].t = "ref" /\ pair[2].t = "object")
                 => \A sub \in {a.selectionSet, b.selectionSet} :
                      FieldNames(Effective(Definitions.fragments, variables, sub,
                                           Matching(schema,
                                                    RuntimeObject(payload, schema, pair[1].o))))
                        \cap DOMAIN payload[pair[1].o]
                      \subseteq DOMAIN pair[2].f

\* C4: a field carrying @skip and/or @include is in the projection iff some
\* occurrence of it that the selection set reaches has no @skip or a false
\* one, and no @include or a true one.
C4_DirectiveTable ==
    VariablesSupplied =>
    \A fr \in Frames :
      LET reached == Reached(Definitions.fragments, variables, fr.selectionSet,
                             Matching(schema, fr.runtimeObject))
      IN \A n \in Range(reached) :
            (n.skip # None \/ n.include # None)
            => (n.name \in DOMAIN fr.res.f
                <=> \E m \in Range(reached) :
                       m.name = n.name /\ Keeps(m, variables))

\* the call met a field with directives whose skip and include are both true
\* and left it out, and met one kept by skip = false and include = true
SkipWins(fr) ==
    \E n \in Range(fr.selectionSet) :
        /\ n.skip \in DOMAIN variables /\ n.include \in DOMAIN variables
        /\ variables[n.skip] /\ variables[n.include]
        /\ n.name \notin DOMAIN fr.res.f

C4_Witness ==
    /\ VariablesSupplied
    /\ \E fr \in Frames : SkipWins(fr)


\* The document with every fragment spread replaced, in place, by an inline
\* fragment that carries the spread's directives and the fragment's type
\* condition and selection set, spreads inside fragments included.
RECURSIVE InlineSpreads(_, _)
InlineSpreads(fragments, selections) ==
    [j \in 1..Len(selections) |->
        LET s == selections[j]
        IN IF s.kind = "FragmentSpread" /\ s.name \in DOMAIN fragments
           THEN InlineDirected(fragments[s.name].typeCondition, s.skip,
                               s.include,
                               InlineSpreads(fragments,
                                             fragments[s.name].selectionSet))
           ELSE [s EXCEPT !.selectionSet = InlineSpreads(fragments, @)]]

Inlined(doc) ==
    [j \in 1..Len(doc) |->
        [doc[j] EXCEPT !.selectionSet =
            InlineSpreads(extractDefinitions(doc).fragments, @)]]

\* C5: projecting with named fragment spreads gives the result of projecting
\* the document in which every spread is inlined.
C5_SpreadIsInlining ==
    Done => result = pickOperationFields(payload, Inlined(documentNode),
                                         operationName, variables, schema)

\* C6: without a schema every typed fragment and inline fragment applies to
\* every object: the projected object has every field of every branch that
\* the object has, whatever its __typename.
C6_SchemalessCombinesBranches ==
    (schema = dummySchema /\ VariablesSupplied) =>
    \A fr \in Frames :
        FieldNames(Effective(Definitions.fragments, variables,
                             fr.selectionSet, TypeConditions))
          \cap DOMAIN payload[fr.obj]
        \subseteq DOMAIN fr.res.f

\* C7: with a schema, an object whose __typename names a type T of the
\* schema gets the fields its selection set names directly and through the
\* fragments conditioned on T, and no field named only in the fragments
\* conditioned on another type.
C7_SchemaFiltersBranches ==
    (schema = realSchema /\ VariablesSupplied) =>
    \A fr \in Frames :
        fr.runtimeObject # NoType
        => DOMAIN fr.res.f =
             FieldNames(Effective(Definitions.fragments, variables,
                                  fr.selectionSet, {fr.runtimeObject}))

\* the fields the fragments conditioned on another type name
OtherBranchFields(fr) ==
    FieldNames(Effective(Definitions.fragments, variables, fr.selectionSet,
                         TypeConditions))
    \ FieldNames(Effective(Definitions.fragments, variables, fr.selectionSet,
                           {fr.runtimeObject}))

\* a typed object was projected that has a field of a branch conditioned on
\* another type
C7_Witness ==
    /\ schema = realSchema
    /\ VariablesSupplied
    /\ \E fr \in Frames :
          /\ fr.runtimeObject # NoType
          /\ OtherBranchFields(fr) \cap DOMAIN payload[fr.obj] # {}


\* The access paths of the objects that projection enters through a field
\* with a selection set and whose __typename names no type of the schema;
\* nothing below such an object is entered.
RECURSIVE Untyped(_, _, _, _, _, _, _, _)
UntypedIn(heap, fragments, variableValues, sch, value, node, path) ==
    IF value.t = "ref" /\ node.selectionSet # <<>>
    THEN IF RuntimeObject(heap, sch, value.o) = NoType
         THEN {path}
         ELSE Untyped(heap, fragments, variableValues, sch, value.o,
                      node.selectionSet, RuntimeObject(heap, sch, value.o),
                      path)
    ELSE {}

Untyped(heap, fragments, variableValues, sch, obj, selectionSet, runtimeObject, path) ==
    LET nodes == Effective(fragments, variableValues, selectionSet,
                           Matching(sch, runtimeObject))
    IN UNION {
         LET value == Get(heap[obj], n.name)
         IN IF value.t = "array"
            THEN UNION {UntypedIn(heap, fragments, variableValues, sch,
                                  value.e[j], n,
                                  path \o "." \o n.name \o "["
                                       \o ToString(j - 1) \o "]")
                        : j \in 1..Len(value.e)}
            ELSE UntypedIn(heap, fragments, variableValues, sch, value, n,
                           path \o "." \o n.name)
         : n \in Range(nodes)}

\* the call found its operation and had a value for every variable
ProjectingCall ==
    /\ Done
    /\ OperationKeyOf(operationName) \in DOMAIN Definitions.operations
    /\ VariablesSupplied

UntypedPaths ==
    Untyped(payload, Definitions.fragments, variables, realSchema, Root,
            OperationSelected.selectionSet,
            getRootType(realSchema, OperationSelected.operation), "data")

\* C8: with a schema, the call throws the type-inference error naming the
\* access path of an object it enters whose __typename names no type of the
\* schema, and returns an object when there is none; without a schema it
\* never throws that error.
C8_UntypedObjectThrows ==
    ProjectingCall =>
        IF schema = realSchema
        THEN IF UntypedPaths = {}
             THEN result.t = "object"
             ELSE /\ result.t = "throw"
                  /\ \E path \in UntypedPaths : result.msg = InferError(path)
        ELSE result.t = "object"

\* with a schema, the call met an untyped object inside an array below the
\* root and threw
C8_Witness ==
    /\ ProjectingCall
    /\ schema = realSchema
    /\ result.t = "throw"
    /\ \E path \in UntypedPaths :
          /\ result.msg = InferError(path)
          /\ path = "data.business.employees[1]"

\* what C9 says the call does
OperationNames ==
    {documentNode[j].name :
        j \in {k \in 1..Len(documentNode) :
                  isOperationDefinition(documentNode[k])}}

ProjectionAgainst(name) ==
    LET T(d) == isOperationDefinition(d) /\ d.name = name
        operation == LastWith(documentNode, T)
    IN pickSelectionSet(payload, "data", Root, operation.selectionSet, schema,
                        Definitions.fragments, variables,
                        getRootType(schema, operation.operation), 0)

\* C9: the operation is resolved by name only: without an operation name the
\* anonymous operation is projected and its absence is an error; with a name
\* the operation of that name is projected and its absence is an error.
C9_OperationByName ==
    Done =>
        IF operationName \in OperationNames
        THEN result = ProjectionAgainst(operationName)
        ELSE IF operationName = None
        THEN result = Throw("Unable to find anonymous query, pass operationName to choose an operation")
        ELSE result = Throw("Unable to find operation named \""
                            \o operationName \o "\"")

\* all the field nodes a selection set can reach, whatever the variables and
\* the runtime type
StaticFields(fragments, selections) ==
    Reached(fragments, [v \in DocumentVariables(documentNode) |-> FALSE],
            [j \in 1..Len(selections) |->
                [selections[j] EXCEPT !.skip = None, !.include = None]],
            TypeConditions)

Max(S) == CHOOSE x \in S : \A y \in S : y <= x

\* the nesting depth of a selection set, fragments expanded
RECURSIVE SelectionDepth(_, _)
SelectionDepth(fragments, selections) ==
    1 + Max({0} \cup {SelectionDepth(fragments, n.selectionSet) :
                        n \in {m \in Range(StaticFields(fragments, selections)) :
                                  m.selectionSet # <<>>}})

\* the nesting depth of the objects of a projected value
RECURSIVE ValueDepth(_)
ValueDepth(value) ==
    IF value.t = "object"
    THEN 1 + Max({0} \cup {ValueDepth(value.f[k]) : k \in DOMAIN value.f})
    ELSE IF value.t = "array"
    THEN Max({0} \cup {ValueDepth(value.e[j]) : j \in 1..Len(value.e)})
    ELSE 0

\* an object of the payload that reaches itself through its properties
RECURSIVE ReachableFrom(_, _, _)
ReachableFrom(heap, frontier, seen) ==
    LET refs(value) ==
            IF value.t = "ref" THEN {value.o}
            ELSE IF value.t = "array"
            THEN {value.e[j].o : j \in {i \in 1..Len(value.e) : value.e[i].t = "ref"}}
            ELSE {}
        next == UNION {UNION {refs(heap[o][k]) : k \in DOMAIN heap[o]} : o \in frontier}
    IN IF next \subseteq seen THEN seen
       ELSE ReachableFrom(heap, next \ seen, seen \cup next)

OnCycle(heap, o) == o \in ReachableFrom(heap, {o}, {})

\* C10: projection terminates on every payload, cyclic ones included: it
\* never exhausts the call stack, and the objects of the result nest no
\* deeper than the selection sets of the operation.
C10_BoundedBySelectionDepth ==
    Done =>
        /\ result # RangeError
        /\ ProjectingCall
            => ValueDepth(result)
                 <= SelectionDepth(Definitions.fragments,
                                   OperationSelected.selectionSet)

\* an object on a cycle of the payload was projected
C10_Witness ==
    \E fr \in Frames : fr.obj # Root /\ OnCycle(payload, fr.obj)

FrameNodes(fr) ==
    Effective(Definitions.fragments, variables, fr.selectionSet,
              Matching(schema, fr.runtimeObject))

\* C26: with and without a schema, a field that has a sub-selection and
\* whose payload value is null projects to null, and a null item of an
\* array stays null at its index; the type-inference error is thrown for
\* the path of an object only, never for null.
C26_NullPassesThrough ==
    /\ \A fr \in Frames : \A node \in Range(FrameNodes(fr)) :
          LET value == Get(payload[fr.obj], node.name)
          IN node.selectionSet # <<>> =>
               /\ value = Null =>
                    /\ node.name \in DOMAIN fr.res.f
                    /\ fr.res.f[node.name] = Null
               /\ value.t = "array" =>
                    /\ node.name \in DOMAIN fr.res.f
                    /\ fr.res.f[node.name].t = "array"
                    /\ Len(fr.res.f[node.name].e) = Len(value.e)
                    /\ \A j \in 1..Len(value.e) :
                          value.e[j] = Null => fr.res.f[node.name].e[j] = Null
    /\ (ProjectingCall /\ result.t = "throw") =>
          /\ schema = realSchema
          /\ \E path \in UntypedPaths : result.msg = InferError(path)

\* with a schema, a null user and a null first employee were projected to
\* null under their sub-selections
C26_Witness ==
    /\ Returned
    /\ schema = realSchema
    /\ documentNode = DeepQuery
    /\ payload[Root].user = Null
    /\ result.f.user = Null
    /\ Len(payload[Business].employees.e) = 2
    /\ result.f.business.f.employees.t = "array"
    /\ result.f.business.f.employees.e[1] = Null
    /\ result.f.business.f.employees.e[2].t = "object"

\* the field nodes a frame picked, in the order of their picks
PickedNodes(fr) ==
    FieldNodes(collectFields(schema, Definitions.fragments, variables,
                             fr.runtimeObject, fr.selectionSet).fields)

\* the projection of one item of an array found under a field node
ItemProjection(fr, node, items, j) ==
    IF node.selectionSet # <<>> /\ items[j].t = "ref"
    THEN pickSelectionSet(payload,
                          fr.path \o "." \o node.name \o "["
                                  \o ToString(j - 1) \o "]",
                          items[j].o, node.selectionSet, schema,
                          Definitions.fragments, variables,
                          RuntimeObject(payload, schema, items[j].o), 0)
    ELSE items[j]

Aliases(nodes) == {n.alias : n \in Range(nodes)} \ {None}

\* C30: a projected object is keyed by field name, not by alias: every key
\* of every projected object is the name of a field of the effective
\* selection set, an aliased field is stored under its name, and an alias
\* that is not also the name of a selected field is never a key.
C30_KeyedByFieldName ==
    \A fr \in Frames :
        /\ DOMAIN fr.res.f \subseteq FieldNames(FrameNodes(fr))
        /\ \A n \in Range(FrameNodes(fr)) :
              n.alias # None => n.name \in DOMAIN fr.res.f
        /\ (Aliases(FrameNodes(fr)) \ FieldNames(FrameNodes(fr)))
              \cap DOMAIN fr.res.f = {}

\* the field aliased u was stored under its name, user
C30_Witness ==
    /\ Returned
    /\ documentNode = AliasQuery
    /\ payload[Root].user = Ref(Account)
    /\ DOMAIN result.f = {"user", "business"}
    /\ result.f.user.t = "object"

\* A projected value put into memory, as a payload is: each projected
\* object gets an identity of its own and the value refers to it.  The
\* objects of `heap` keep their identities, so what the projection returned
\* by reference still refers to them.
RECURSIVE StoreValue(_, _)
RECURSIVE StoreFields(_, _, _, _)
RECURSIVE StoreItems(_, _, _, _)
StoreValue(heap, value) ==
    CASE value.t = "object" ->
            Bind(Max(DOMAIN heap) + 1, LAMBDA o :
                Bind(StoreFields((o :> EmptyMap) @@ heap, value.f,
                                 DOMAIN value.f, EmptyMap),
                     LAMBDA stored :
                        [heap |-> [stored.heap EXCEPT ![o] = stored.fields],
                         value |-> Ref(o)]))
      [] value.t = "array" ->
            Bind(StoreItems(heap, value.e, 1, <<>>), LAMBDA stored :
                [heap |-> stored.heap, value |-> Arr(stored.items)])
      [] OTHER -> [heap |-> heap, value |-> value]

StoreFields(heap, fields, keys, acc) ==
    IF keys = {} THEN [heap |-> heap, fields |-> acc]
    ELSE Bind(CHOOSE k \in keys : TRUE, LAMBDA k :
            Bind(StoreValue(heap, fields[k]), LAMBDA stored :
                StoreFields(stored.heap, fields, keys \ {k},
                            (k :> stored.value) @@ acc)))

StoreItems(heap, items, i, acc) ==
    IF i > Len(items) THEN [heap |-> heap, items |-> acc]
    ELSE Bind(StoreValue(heap, items[i]), LAMBDA stored :
            StoreItems(stored.heap, items, i + 1, Append(acc, stored.value)))

\* the payload whose root is the projected object res
AsPayload(heap, res) ==
    Bind(StoreFields(heap, res.f, DOMAIN res.f, EmptyMap), LAMBDA stored :
        [stored.heap EXCEPT ![Root] = stored.fields])

\* the projection of the result of the call, with the document, operation
\* name and variables of the call
ProjectedAgain ==
    pickOperationFields(AsPayload(payload, result), documentNode,
                        operationName, variables, dummySchema)

\* C29: without a schema projection is idempotent: when the call returned,
\* projecting its result with the same document, operation name and
\* variables returns an equal object.
C29_Idempotent ==
    (Returned /\ schema = dummySchema) => ProjectedAgain = result

----------------------------------------------------------------------------
(* Request analysis: parseGraphQLRequest                                   *)

Bool(b) == [t |-> "boolean", b |-> b]

\* an uploaded file part
File(name) == [t |-> "file", name |-> name]

\* a string holding the JSON text of the value v
Json(v) == [t |-> "json", v |-> v]

\* a non-empty string that is not JSON text
NotJson == [t |-> "json", v |-> Undefined]

\* JavaScript truthiness of the values of this model
Truthy(v) ==
    /\ v.t \notin {"undefined", "null"}
    /\ v # Str("")
    /\ v # Bool(FALSE)

\* jsonParse(value): JSON.parse, undefined instead of an exception
jsonParse(value) ==
    IF value.t = "json" THEN value.v
    ELSE IF value.t = "null" THEN Null
    ELSE Undefined

\* a DocumentNode
DocumentNode(definitions) ==
    [t |-> "document", kind |-> "Document", definitions |-> definitions]

LOGIN == "mutation Login { user { id } }"
GET_USER == "query GetUser($userId: String!) { user(id: $userId) { firstName } }"
GET_USER_DEFAULT == "query GetUser($userId: String = \"me\") { user(id: $userId) { firstName } }"
GET_NODE == "query GetNode($id: ID!) { node(id: $id) { id } }"
UPLOAD == "mutation Upload($file: Upload!) { upload { id } }"
SHORTHAND == "{ user { id } }"
GET_USER_AND_LOGIN == GET_USER \o " " \o LOGIN
TWO_ANONYMOUS == "query { user { id } } query { otherUser { id } }"
ANONYMOUS_AND_LOGIN == SHORTHAND \o " " \o LOGIN
RESERVED_NAME == "query __anonymous_operation { user { id } }"
RESERVED_AND_SHORTHAND == RESERVED_NAME \o " { user { firstName } }"
ONLY_FRAGMENT == "fragment UserFields on User { id }"
MALFORMED == "query GetUser() { user {{}"

LoginOperation ==
    Operation("mutation", "Login", <<Field("user", <<Field("id", <<>>)>>)>>)
GetUserOperation(variableDefinitions) ==
    OperationWith("query", "GetUser", variableDefinitions,
                  <<Field("user", <<Field("firstName", <<>>)>>)>>)
ShorthandOperation ==
    Operation("query", None, <<Field("user", <<Field("id", <<>>)>>)>>)

\* parse(source) of graphql, on the query texts of this model
parse(source) ==
    IF source.t # "string"
    THEN Throw("Body must be a string. Received: true.")
    ELSE CASE source.s = LOGIN -> DocumentNode(<<LoginOperation>>)
           [] source.s = GET_USER ->
                DocumentNode(<<GetUserOperation(
                    <<VariableDefinition("userId", "String", TRUE, Undefined)>>)>>)
           [] source.s = GET_USER_DEFAULT ->
                DocumentNode(<<GetUserOperation(
                    <<VariableDefinition("userId", "String", FALSE, Str("me"))>>)>>)
           [] source.s = GET_NODE ->
                DocumentNode(<<OperationWith("query", "GetNode",
                    <<VariableDefinition("id", "ID", TRUE, Undefined)>>,
                    <<Field("node", <<Field("id", <<>>)>>)>>)>>)
           [] source.s = UPLOAD ->
                DocumentNode(<<OperationWith("mutation", "Upload",
                    <<VariableDefinition("file", "Upload", TRUE, Undefined)>>,
                    <<Field("upload", <<Field("id", <<>>)>>)>>)>>)
           [] source.s = SHORTHAND -> DocumentNode(<<ShorthandOperation>>)
           [] source.s = GET_USER_AND_LOGIN ->
                DocumentNode(<<GetUserOperation(
                    <<VariableDefinition("userId", "String", TRUE, Undefined)>>),
                    LoginOperation>>)
           [] source.s = TWO_ANONYMOUS ->
                DocumentNode(<<ShorthandOperation,
                    Operation("query", None,
                              <<Field("otherUser", <<Field("id", <<>>)>>)>>)>>)
           [] source.s = ANONYMOUS_AND_LOGIN ->
                DocumentNode(<<ShorthandOperation, LoginOperation>>)
           [] source.s = RESERVED_NAME ->
                DocumentNode(<<Operation("query", anonymousOperationKey,
                    <<Field("user", <<Field("id", <<>>)>>)>>)>>)
           [] source.s = RESERVED_AND_SHORTHAND ->
                DocumentNode(<<Operation("query", anonymousOperationKey,
                    <<Field("user", <<Field("id", <<>>)>>)>>),
                    Operation("query", None,
                              <<Field("user", <<Field("firstName", <<>>)>>)>>)>>)
           [] source.s = ONLY_FRAGMENT ->
                DocumentNode(<<Fragment("UserFields", "User",
                                        <<Field("id", <<>>)>>)>>)
           [] OTHER -> Throw("Syntax Error: Expected \"$\", found \")\".")

\* inspect(value) of graphql, as it appears in coercion errors
inspect(value) ==
    CASE value.t = "string" -> "\"" \o value.s \o "\""
      [] value.t = "boolean" -> IF value.b THEN "true" ELSE "false"
      [] value.t = "null" -> "null"
      [] value.t = "array" -> "[]"
      [] OTHER -> "{}"

\* the type of a variable definition as printed: T or T!
TypeText(varDef) == varDef.type \o (IF varDef.nonNull THEN "!" ELSE "")

\* Object.prototype.hasOwnProperty.call(inputs, name)
hasOwnProperty(inputs, name) ==
    inputs.t = "object" /\ name \in DOMAIN inputs.f

\* coerceVariableValues of graphql against new GraphQLSchema({}): the
\* definitions from index i on; acc holds the coerced values and the errors
RECURSIVE coerceVariableValues(_, _, _, _)
coerceVariableValues(varDefs, inputs, i, acc) ==
    IF i > Len(varDefs) THEN acc
    ELSE
    LET varDef == varDefs[i]
        varName == varDef.name
        error(m) == [acc EXCEPT !.errors = Append(@, m)]
        coerced(v) == [acc EXCEPT !.coerced = (varName :> v) @@ @]
        value == inputs.f[varName]
        next ==
            IF getType(dummySchema, varDef.type) = NoType
            THEN error("Variable \"$" \o varName
                       \o "\" expected value of type \"" \o TypeText(varDef)
                       \o "\" which cannot be used as an input type.")
            ELSE IF ~hasOwnProperty(inputs, varName)
            THEN IF varDef.defaultValue # Undefined
                 THEN coerced(varDef.defaultValue)
                 ELSE IF varDef.nonNull
                 THEN error("Variable \"$" \o varName
                            \o "\" of required type \"" \o TypeText(varDef)
                            \o "\" was not provided.")
                 ELSE acc
            ELSE IF value = Null /\ varDef.nonNull
            THEN error("Variable \"$" \o varName \o "\" of non-null type \""
                       \o TypeText(varDef) \o "\" must not be null.")
            ELSE IF value = Null THEN coerced(Null)
            ELSE IF varDef.type = "String" /\ value.t # "string"
            THEN error("Variable \"$" \o varName \o "\" got invalid value "
                       \o inspect(value)
                       \o "; String cannot represent a non string value: "
                       \o inspect(value))
            ELSE IF varDef.type = "Boolean" /\ value.t # "boolean"
            THEN error("Variable \"$" \o varName \o "\" got invalid value "
                       \o inspect(value)
                       \o "; Boolean cannot represent a non boolean value: "
                       \o inspect(value))
            ELSE coerced(value)
    IN coerceVariableValues(varDefs, inputs, i + 1, next)

\* operationName == null
IsNullish(v) == v.t \in {"null", "undefined"}

\* the execution context of the first operation, whatever name is supplied
buildExecutionContext_First(document, opName, variableValues) ==
    LET ops == SelectSeq(document.definitions, isOperationDefinition)
    IN IF ops = <<>>
       THEN [t |-> "errors", errors |-> <<"Must provide an operation.">>]
       ELSE Bind(coerceVariableValues(ops[1].variableDefinitions,
                                      IF IsNullish(variableValues)
                                      THEN Obj(EmptyMap) ELSE variableValues,
                                      1, [coerced |-> EmptyMap, errors |-> <<>>]),
                 LAMBDA values :
                    IF values.errors # <<>>
                    THEN [t |-> "errors", errors |-> values.errors]
                    ELSE [t |-> "context", operation |-> ops[1],
                          variableValues |-> Obj(values.coerced)])

\* buildExecutionContext({ schema: new GraphQLSchema({}), document,
\* operationName, variableValues }) of graphql: the execution context, or
\* the list of errors
buildExecutionContext(document, opName, variableValues) ==
    LET definitions == document.definitions
        ops == {j \in 1..Len(definitions) : isOperationDefinition(definitions[j])}
        named == {j \in ops : /\ opName.t = "string"
                              /\ definitions[j].name # None
                              /\ definitions[j].name = opName.s}
        errors(m) == [t |-> "errors", errors |-> <<m>>]
        Last(S) == CHOOSE j \in S : \A k \in S : k <= j
        First(S) == CHOOSE j \in S : \A k \in S : j <= k
        context(operation) ==
            Bind(coerceVariableValues(operation.variableDefinitions,
                                      IF IsNullish(variableValues)
                                      THEN Obj(EmptyMap) ELSE variableValues,
                                      1, [coerced |-> EmptyMap, errors |-> <<>>]),
                 LAMBDA values :
                    IF values.errors # <<>>
                    THEN [t |-> "errors", errors |-> values.errors]
                    ELSE [t |-> "context", operation |-> operation,
                          variableValues |-> Obj(values.coerced)])
    IN IF IsNullish(opName)
       THEN IF Cardinality(ops) > 1
            THEN errors("Must provide operation name if query contains multiple operations.")
            ELSE IF ops = {} THEN errors("Must provide an operation.")
            ELSE context(definitions[First(ops)])
       ELSE IF named = {}
            THEN errors("Unknown operation named \"" \o
                        (IF opName.t = "string" THEN opName.s ELSE inspect(opName))
                        \o "\".")
            ELSE context(definitions[Last(named)])

\* errorMessages.join('\n')
RECURSIVE join(_, _)
join(messages, separator) ==
    IF messages = <<>> THEN ""
    ELSE IF Len(messages) = 1 THEN messages[1]
    ELSE messages[1] \o separator \o join(Tail(messages), separator)

\* every operation reported with a name
NameValue_Always(name) == Str(name)

\* an operation without a name has operationName undefined
NameValue(name) == IF name = None THEN Undefined ELSE Str(name)

parseDocumentNode(document, opName, variableValues) ==
    Bind(buildExecutionContext(document, opName, variableValues),
         LAMBDA executionContext :
            IF executionContext.t = "errors"
            THEN Throw(join(executionContext.errors, "\n"))
            ELSE [t |-> "parsed",
                  operationType |-> executionContext.operation.operation,
                  operationName |-> NameValue(executionContext.operation.name),
                  variables |-> executionContext.variableValues])

\* parseQuery returns the error it caught instead of throwing it
parseQuery(query, opName, variableValues) ==
    Bind(parse(query), LAMBDA document :
        IF IsThrow(document) THEN document
        ELSE Bind(parseDocumentNode(document, opName, variableValues),
                  LAMBDA parsed :
                    IF IsThrow(parsed) THEN parsed
                    ELSE [t |-> "parsed", document |-> document,
                          operationType |-> parsed.operationType,
                          operationName |-> parsed.operationName,
                          variables |-> parsed.variables]))

\* value[name] of a value that may be anything: undefined unless the value
\* is an object that has the property
Prop(value, name) ==
    IF value.t = "object" THEN Get(value.f, name) ELSE Undefined

\* a || b
Or(a, b) == IF Truthy(a) THEN a ELSE b

\* A dot path of the multipart map.  The string is kept as the list of the
\* segments dotPath.split('.') yields.
DotPath(segments) == [t |-> "path", segments |-> segments]

\* the array index a path segment denotes
IsIndex(segment) == segment \in {"0", "1", "2"}
Index(segment) == CASE segment = "0" -> 1 [] segment = "1" -> 2 [] OTHER -> 3

\* path in target; the operator throws on a target that is not an object
In(segment, target) ==
    CASE target.t = "object" -> segment \in DOMAIN target.f
      [] target.t = "array" -> IsIndex(segment) /\ Index(segment) <= Len(target.e)
      [] OTHER -> FALSE

\* target[path]
At(target, segment) ==
    IF target.t = "object" THEN target.f[segment]
    ELSE target.e[Index(segment)]

\* typeof target === 'object' (or an array), the values `in` and property
\* assignment work on
IsObjectLike(target) == target.t \in {"object", "array", "file"}

\* an assignment that leaves the placeholder in the target
Assign_Placeholder(target, lastPath, file) == target

\* target[lastPath] = file
Assign(target, lastPath, file) ==
    CASE target.t = "object" -> Obj((lastPath :> file) @@ target.f)
      [] target.t = "array" /\ IsIndex(lastPath) ->
            Arr([j \in 1..(IF Index(lastPath) > Len(target.e)
                           THEN Index(lastPath) ELSE Len(target.e)) |->
                    IF j = Index(lastPath) THEN file
                    ELSE IF j <= Len(target.e) THEN target.e[j]
                    ELSE Undefined])
      [] target.t \in {"array", "file"} -> target
      [] target.t \in {"null", "undefined"} ->
            Throw("Cannot set properties of " \o target.t
                  \o " (setting '" \o lastPath \o "')")
      [] OTHER -> Throw("Cannot create property '" \o lastPath \o "' on "
                        \o target.t)

\* the walk of one dot path: `paths` are the segments before the last one,
\* walked from index i, and the file is assigned at lastPath of the object
\* reached; the result is the target with the assignment made, or the throw
RECURSIVE assignAtPath(_, _, _, _, _)
assignAtPath(target, paths, i, lastPath, file) ==
    IF i > Len(paths) THEN Assign(target, lastPath, file)
    ELSE IF ~IsObjectLike(target)
    THEN Throw("Cannot use 'in' operator to search for '" \o paths[i]
               \o "' in " \o target.t)
    ELSE IF ~In(paths[i], target)
    THEN Throw("Property '" \o join(paths, ",") \o "' is not in operations.")
    ELSE Bind(assignAtPath(At(target, paths[i]), paths, i + 1, lastPath, file),
              LAMBDA below :
                IF IsThrow(below) THEN below
                ELSE IF target.t = "object"
                THEN Obj((paths[i] :> below) @@ target.f)
                ELSE Arr([target.e EXCEPT ![Index(paths[i])] = below]))

\* the order Object.entries visits the keys of the map in
FileKeys == <<"0", "1">>

\* the dot paths of one key, from index j on
RECURSIVE assignPaths(_, _, _, _)
assignPaths(operations, pathArray, j, file) ==
    IF IsThrow(operations) \/ j > Len(pathArray) THEN operations
    ELSE LET segments == pathArray[j].segments
             n == Len(segments)
         IN assignPaths(assignAtPath(operations, SubSeq(segments, 1, n - 1), 1,
                                     segments[n], file),
                        pathArray, j + 1, file)

\* the entries of the map, from index i of FileKeys on
RECURSIVE assignEntries(_, _, _, _)
assignEntries(operations, map, files, i) ==
    IF IsThrow(operations) \/ i > Len(FileKeys) THEN operations
    ELSE LET key == FileKeys[i]
         IN IF key \notin DOMAIN map THEN assignEntries(operations, map, files, i + 1)
            ELSE IF key \notin DOMAIN files
            THEN Throw("Given files do not have a key '" \o key \o "' .")
            ELSE assignEntries(assignPaths(operations, map[key].e, 1, files[key]),
                               map, files, i + 1)

extractMultipartVariables(variableValues, map, files) ==
    LET operations == assignEntries(Obj("variables" :> variableValues), map,
                                    files, 1)
    IN IF IsThrow(operations) THEN operations ELSE operations.f["variables"]

\* request.url.searchParams.get(name)
SearchParam(req, name) ==
    IF name \in DOMAIN req.searchParams THEN req.searchParams[name] ELSE Null

Input(query, opName, variableValues) ==
    [t |-> "input", query |-> query, operationName |-> opName,
     variables |-> variableValues]

\* const { operations, map, ...files } = request.body
FilesOf(body) ==
    [k \in DOMAIN body.f \ {"operations", "map"} |-> body.f[k]]

getGraphQLInput(req) ==
    CASE req.method = "GET" ->
            Input(SearchParam(req, "query"),
                  SearchParam(req, "operationName"),
                  jsonParse(Or(SearchParam(req, "variables"), Str(""))))
      [] req.method = "POST" /\ Truthy(Prop(req.body, "query")) ->
            Input(Prop(req.body, "query"), Prop(req.body, "operationName"),
                  Prop(req.body, "variables"))
      [] req.method = "POST" /\ ~Truthy(Prop(req.body, "query"))
            /\ Truthy(Prop(req.body, "operations")) ->
            Bind(Or(jsonParse(Prop(req.body, "operations")), Obj(EmptyMap)),
                 LAMBDA parsedOperations :
                    IF ~Truthy(Prop(parsedOperations, "query")) THEN Null
                    ELSE Bind(IF Truthy(Prop(parsedOperations, "variables"))
                              THEN extractMultipartVariables(
                                    Prop(parsedOperations, "variables"),
                                    Or(jsonParse(Or(Prop(req.body, "map"),
                                                    Str(""))),
                                       Obj(EmptyMap)).f,
                                    FilesOf(req.body))
                              ELSE Obj(EmptyMap),
                              LAMBDA variableValues :
                                IF IsThrow(variableValues) THEN variableValues
                                ELSE Input(Prop(parsedOperations, "query"),
                                           Or(Prop(parsedOperations,
                                                   "operationName"), Null),
                                           variableValues)))
      [] OTHER -> Null

\* getPublicUrlFromRequest(request)
getPublicUrlFromRequest(req) == req.url

\* devUtils.formatMessage(message, ...positionals)
formatMessage(message) == "[MSW] " \o message

\* the error parseGraphQLRequest throws for a query that analysis rejects
ParseError(req, message) ==
    Throw(formatMessage(
        "Failed to intercept a GraphQL request to \"" \o req.method \o " "
        \o getPublicUrlFromRequest(req)
        \o "\": cannot parse query. See the error message from the parser below.\n\n"
        \o message))

\* parseGraphQLRequest without the test of input.query
parseGraphQLRequest_NoQueryCheck(req) ==
    Bind(getGraphQLInput(req), LAMBDA input :
        IF IsThrow(input) THEN input
        ELSE IF input = Null THEN Undefined
        ELSE Bind(parseQuery(input.query, input.operationName, input.variables),
                  LAMBDA parsed :
                    IF IsThrow(parsed) THEN ParseError(req, parsed.msg)
                    ELSE parsed))

\* parseGraphQLRequest that gives up on a query it cannot analyse
parseGraphQLRequest_Silent(req) ==
    Bind(getGraphQLInput(req), LAMBDA input :
        IF IsThrow(input) THEN input
        ELSE IF input = Null \/ ~Truthy(input.query) THEN Undefined
        ELSE Bind(parseQuery(input.query, input.operationName, input.variables),
                  LAMBDA parsed :
                    IF IsThrow(parsed) THEN Undefined
                    ELSE parsed))

parseGraphQLRequest(req) ==
    Bind(getGraphQLInput(req), LAMBDA input :
        IF IsThrow(input) THEN input
        ELSE IF input = Null \/ ~Truthy(input.query) THEN Undefined
        ELSE Bind(parseQuery(input.query, input.operationName, input.variables),
                  LAMBDA parsed :
                    IF IsThrow(parsed) THEN ParseError(req, parsed.msg)
                    ELSE parsed))

----------------------------------------------------------------------------
(* GraphQLHandler *)

RegExp(source) == [t |-> "regexp", source |-> source]

\* regexp.test(string), for the patterns of this model (none has the g or y
\* flag, so a test does not depend on the tests made before)
RegExpTest(regexp, string) ==
    CASE regexp.source = ".*" -> TRUE
      [] regexp.source = "^Get" -> string \in {"GetUser", "GetNode"}
      [] regexp.source = "^$" -> string = ""
      [] OTHER -> FALSE

\* String(selector), as the header shows it
SelectorText(selector) ==
    IF selector.t = "regexp" THEN "/" \o selector.source \o "/"
    ELSE IF selector.t = "string" THEN selector.s
    ELSE "[object Object]"

isDocumentNode(value) == value.t = "document"

Handler(operationType, operationSelector, endpoint) ==
    [t |-> "handler",
     info |-> [header |->
                  IF operationType = "all"
                  THEN operationType \o " (origin: " \o endpoint \o ")"
                  ELSE operationType \o " " \o SelectorText(operationSelector)
                       \o " (origin: " \o endpoint \o ")",
               operationType |-> operationType,
               operationSelector |-> operationSelector],
     endpoint |-> endpoint]

\* the constructor without the test of the operation name
GraphQLHandler_AnyName(operationType, operationSelector, endpoint) ==
    IF isDocumentNode(operationSelector)
    THEN Bind(parseDocumentNode(operationSelector, Null, Undefined),
              LAMBDA parsedNode :
                IF IsThrow(parsedNode) THEN parsedNode
                ELSE IF parsedNode.operationType # operationType
                THEN Throw("Failed to create a GraphQL handler: provided a DocumentNode with a mismatched operation type (expected \""
                           \o operationType \o "\", but got \""
                           \o parsedNode.operationType \o "\").")
                ELSE Handler(operationType, parsedNode.operationName, endpoint))
    ELSE Handler(operationType, operationSelector, endpoint)

\* new GraphQLHandler(operationType, operationSelector, endpoint, resolver)
GraphQLHandler(operationType, operationSelector, endpoint) ==
    IF isDocumentNode(operationSelector)
    THEN Bind(parseDocumentNode(operationSelector, Null, Undefined),
              LAMBDA parsedNode :
                IF IsThrow(parsedNode) THEN parsedNode
                ELSE IF parsedNode.operationType # operationType
                THEN Throw("Failed to create a GraphQL handler: provided a DocumentNode with a mismatched operation type (expected \""
                           \o operationType \o "\", but got \""
                           \o parsedNode.operationType \o "\").")
                ELSE IF ~Truthy(parsedNode.operationName)
                THEN Throw("Failed to create a GraphQL handler: provided a DocumentNode with no operation name.")
                ELSE Handler(operationType, parsedNode.operationName, endpoint))
    ELSE Handler(operationType, operationSelector, endpoint)

\* tryCatch(fn, onException): the value of fn(), or undefined after calling
\* onException with the error fn threw
tryCatch(outcome) ==
    IF IsThrow(outcome)
    THEN [value |-> Undefined,
          console |-> <<[level |-> "error", message |-> outcome.msg]>>]
    ELSE [value |-> outcome, console |-> <<>>]

\* parse that lets the exception of parseGraphQLRequest through
handlerParse_Propagating(req) ==
    [value |-> parseGraphQLRequest(req), console |-> <<>>]

\* GraphQLHandler.parse(request): the value returned and the lines logged
handlerParse(req) == tryCatch(parseGraphQLRequest(req))

\* matchRequestUrl(request.url, endpoint).matches
matchRequestUrl(url, endpoint) == [matches |-> endpoint = "*" \/ endpoint = url]

AnonymousWarning(req) ==
    "Failed to intercept a GraphQL request at \"" \o req.method \o " "
    \o getPublicUrlFromRequest(req)
    \o "\": anonymous GraphQL operations are not supported.\n\nConsider naming this operation or using \"graphql.operation\" request handler to intercept GraphQL requests regardless of their operation name/type. Read more: https://mswjs.io/docs/api/graphql/operation"

\* the selector test of predicate, against a parsed request
hasMatchingOperationName(h, parsed) ==
    IF h.info.operationSelector.t = "regexp"
    THEN RegExpTest(h.info.operationSelector,
                    Or(parsed.operationName, Str("")).s)
    ELSE parsed.operationName = h.info.operationSelector

\* predicate that leaves the anonymous operations to the other tests
predicate_NoAnonymousCheck(h, req, parsed) ==
    IF ~Truthy(parsed) THEN [value |-> FALSE, console |-> <<>>]
    ELSE [value |->
            /\ matchRequestUrl(req.url, h.endpoint).matches
            /\ \/ h.info.operationType = "all"
               \/ parsed.operationType = h.info.operationType
            /\ hasMatchingOperationName(h, parsed),
          console |-> <<>>]

\* predicate that does not look at the operation type
predicate_AnyType(h, req, parsed) ==
    IF ~Truthy(parsed) THEN [value |-> FALSE, console |-> <<>>]
    ELSE IF ~Truthy(parsed.operationName) /\ h.info.operationType # "all"
    THEN [value |-> FALSE,
          console |-> <<[level |-> "warn", message |-> AnonymousWarning(req)]>>]
    ELSE [value |->
            /\ matchRequestUrl(req.url, h.endpoint).matches
            /\ hasMatchingOperationName(h, parsed),
          console |-> <<>>]

\* GraphQLHandler.predicate(request, parsedResult): the value returned and
\* the lines logged
predicate(h, req, parsed) ==
    IF ~Truthy(parsed) THEN [value |-> FALSE, console |-> <<>>]
    ELSE IF ~Truthy(parsed.operationName) /\ h.info.operationType # "all"
    THEN [value |-> FALSE,
          console |-> <<[level |-> "warn", message |-> AnonymousWarning(req)]>>]
    ELSE LET hasMatchingUrl == matchRequestUrl(req.url, h.endpoint)
             hasMatchingOperationType ==
                \/ h.info.operationType = "all"
                \/ parsed.operationType = h.info.operationType
         IN [value |-> /\ hasMatchingUrl.matches
                       /\ hasMatchingOperationType
                       /\ hasMatchingOperationName(h, parsed),
             console |-> <<>>]

\* RequestHandler.test(request): predicate(request, parse(request))
\* (an exception of parse would leave test before predicate is called)
handlerTest(h, req) ==
    Bind(handlerParse(req), LAMBDA parsed :
        IF IsThrow(parsed.value)
        THEN [value |-> parsed.value, console |-> parsed.console]
        ELSE Bind(predicate(h, req, parsed.value), LAMBDA outcome :
                [value |-> Bool(outcome.value),
                 console |-> parsed.console \o outcome.console]))

----------------------------------------------------------------------------
(* Requests and handlers *)

Request(method, url, searchParams, body) ==
    [t |-> "request", method |-> method, url |-> url,
     searchParams |-> searchParams, body |-> body]

LocalUrl == "http://localhost:8080/graphql"
GitHubUrl == "https://api.github.com/graphql"

QueryTexts ==
    {LOGIN, GET_USER, GET_USER_DEFAULT, GET_NODE, UPLOAD, SHORTHAND,
     GET_USER_AND_LOGIN, TWO_ANONYMOUS, ANONYMOUS_AND_LOGIN, RESERVED_NAME,
     ONLY_FRAGMENT, MALFORMED}

\* the search parameters of a GET request: each one present or not
SearchParams ==
    {q @@ o @@ v :
        q \in {EmptyMap} \cup {("query" :> Str(text)) : text \in QueryTexts \cup {""}},
        o \in {EmptyMap} \cup {("operationName" :> Str(n)) :
                                    n \in {"", "Login", "GetUser"}},
        v \in {EmptyMap} \cup {("variables" :> j) :
                                    j \in {NotJson,
                                           Json(Obj("userId" :> Str("abc-123")))}}}

GetRequests == {Request("GET", LocalUrl, p, Undefined) : p \in SearchParams}

UserId == Obj("userId" :> Str("abc-123"))

\* the JSON bodies of POST requests: query, operationName and variables,
\* each one present or not
JsonBodies ==
    {Obj(q @@ o @@ v) :
        q \in {("query" :> Str(text)) : text \in QueryTexts}
              \cup {("query" :> Bool(TRUE))},
        o \in {EmptyMap} \cup {("operationName" :> n) :
                                    n \in {Null, Str("Login"), Str("GetUser"),
                                           Str(anonymousOperationKey)}},
        v \in {EmptyMap} \cup {("variables" :> x) :
                                    x \in {UserId,
                                           Obj(("userId" :> Bool(TRUE))
                                               @@ ("extra" :> Str("x"))),
                                           Obj("userId" :> Null)}}}

\* bodies that carry neither a query nor operations
OtherBodies ==
    {Undefined, Null, Str("query"), Obj("queryUser" :> Bool(TRUE)),
     Obj("query" :> Str("")), Obj(("query" :> Null) @@ ("operations" :> Str("")))}

\* the variables of multipart operations, with null in the place of files
MultipartVariables ==
    {Obj("file" :> Null),
     Obj(("file" :> Null) @@ ("files" :> Arr(<<Null, Null>>))
         @@ ("name" :> Str("avatar"))),
     Obj(("input" :> Obj("file" :> Null)) @@ ("name" :> Str("avatar")))}

MultipartOperations ==
    {NotJson, Json(Str("query")), Json(Obj("variables" :> Obj("file" :> Null))),
     Json(Obj("query" :> Str(LOGIN)))}
    \cup {Json(Obj(("query" :> Str(UPLOAD)) @@ ("variables" :> v))) :
            v \in MultipartVariables}
    \cup {Json(Obj(("query" :> Str(GET_USER_AND_LOGIN))
                   @@ ("operationName" :> Str("Login"))
                   @@ ("variables" :> v))) : v \in MultipartVariables}

Paths(segmentLists) == Arr([j \in 1..Len(segmentLists) |-> DotPath(segmentLists[j])])

MultipartMaps ==
    {Obj("0" :> Paths(<<<<"variables", "file">>>>)),
     Obj("0" :> Paths(<<<<"variables", "file">>, <<"variables", "files", "1">>>>)),
     Obj(("0" :> Paths(<<<<"variables", "files", "0">>>>))
         @@ ("1" :> Paths(<<<<"variables", "files", "1">>>>))),
     Obj(("0" :> Paths(<<<<"variables", "input", "file">>>>))
         @@ ("1" :> Paths(<<<<"variables", "upload">>>>))),
     Obj(("0" :> Paths(<<<<"variables", "file">>>>))
         @@ ("1" :> Paths(<<<<"variables", "file">>>>))),
     Obj(("0" :> Paths(<<<<"variables", "input", "file">>>>))
         @@ ("1" :> Paths(<<<<"variables", "input">>>>))),
     Obj("0" :> Paths(<<<<"variables", "file", "name">>>>)),
     Obj("0" :> Paths(<<<<"variables", "name", "first">>>>)),
     Obj("0" :> Paths(<<<<"variables", "file", "name", "first">>>>)),
     Obj("0" :> Paths(<<<<"file">>>>))}

\* the file parts of a multipart body
FileParts ==
    {EmptyMap, ("0" :> File("a.txt")),
     ("0" :> File("a.txt")) @@ ("1" :> File("b.txt"))}

MultipartBodies ==
    {Obj(("operations" :> o) @@ m @@ files) :
        o \in MultipartOperations,
        m \in {EmptyMap, ("map" :> NotJson)}
              \cup {("map" :> Json(x)) : x \in MultipartMaps},
        files \in FileParts}

PostRequests ==
    {Request("POST", LocalUrl, EmptyMap, b) :
        b \in JsonBodies \cup OtherBodies \cup MultipartBodies}

\* requests to another endpoint, and with other methods
OtherRequests ==
    {Request("POST", GitHubUrl, EmptyMap, b) :
        b \in {Obj(("query" :> Str(LOGIN)) @@ ("operationName" :> Str("Login"))),
               Obj("query" :> Str(SHORTHAND))}}
    \cup {Request(m, LocalUrl, ("query" :> Str(LOGIN)),
                  Obj("query" :> Str(LOGIN))) : m \in {"PUT", "OPTIONS"}}

Requests == GetRequests \cup PostRequests \cup OtherRequests

OperationTypes == {"query", "mutation", "all"}

Selectors ==
    {Str("GetUser"), Str("Login"), RegExp(".*"), RegExp("^Get"), RegExp("^$")}
    \cup {parse(Str(text)) :
            text \in {LOGIN, GET_USER, GET_USER_DEFAULT, SHORTHAND,
                      GET_USER_AND_LOGIN, ONLY_FRAGMENT}}

Endpoints == {"*", LocalUrl}

----------------------------------------------------------------------------
(* A request meets a handler *)

ProjectorIdle ==
    /\ payload = NotCalled
    /\ documentNode = NotCalled
    /\ operationName = NotCalled
    /\ variables = NotCalled
    /\ schema = NotCalled
    /\ result = NotCalled
    /\ repeated = NotCalled

InitRequest ==
    /\ request \in Requests
    /\ registration = NotCalled
    /\ handler = NotCalled
    /\ parsedResult = NotCalled
    /\ matched = NotCalled
    /\ console = <<>>
    /\ ProjectorIdle
    /\ ResponseIdle
    /\ pc = "request"

\* getGraphQLInput(request), the normalization step of parseGraphQLRequest
Normalize ==
    /\ pc = "request"
    /\ parsedResult' = getGraphQLInput(request)
    /\ pc' = "normalized"
    /\ UNCHANGED <<request, registration, handler, matched, console, projectorVars, responseVars>>

\* parseGraphQLRequest(request)
Analyse ==
    /\ pc = "request"
    /\ parsedResult' = parseGraphQLRequest(request)
    /\ pc' = "analysed"
    /\ UNCHANGED <<request, registration, handler, matched, console, projectorVars, responseVars>>

\* new GraphQLHandler(operationType, operationSelector, endpoint, resolver)
Construct ==
    /\ pc = "request"
    /\ \E operationType \in OperationTypes, operationSelector \in Selectors,
          endpoint \in Endpoints :
            /\ registration' = [operationType |-> operationType,
                                operationSelector |-> operationSelector,
                                endpoint |-> endpoint]
            /\ handler' = GraphQLHandler(operationType, operationSelector,
                                         endpoint)
    /\ pc' = "constructed"
    /\ UNCHANGED <<request, parsedResult, matched, console, projectorVars, responseVars>>

\* handler.parse(request)
Parse ==
    /\ pc = "constructed"
    /\ handler.t = "handler"
    /\ \E outcome \in {handlerParse(request)} :
          /\ parsedResult' = outcome.value
          /\ console' = console \o outcome.console
    /\ pc' = "parsed"
    /\ UNCHANGED <<request, registration, handler, matched, projectorVars, responseVars>>

\* handler.predicate(request, parsedResult)
Predicate ==
    /\ pc = "parsed"
    /\ ~IsThrow(parsedResult)
    /\ \E outcome \in {predicate(handler, request, parsedResult)} :
          /\ matched' = Bool(outcome.value)
          /\ console' = console \o outcome.console
    /\ pc' = "matched"
    /\ UNCHANGED <<request, registration, handler, parsedResult, projectorVars, responseVars>>

\* handler.test(request)
Test ==
    /\ pc = "constructed"
    /\ handler.t = "handler"
    /\ \E outcome \in {handlerTest(handler, request)} :
          /\ matched' = outcome.value
          /\ console' = console \o outcome.console
    /\ pc' = "tested"
    /\ UNCHANGED <<request, registration, handler, parsedResult, projectorVars, responseVars>>

NextRequest ==
    Normalize \/ Analyse \/ Construct \/ Parse \/ Predicate \/ Test

SpecRequest == InitRequest /\ [][NextRequest]_vars

----------------------------------------------------------------------------
(* Claims about request analysis and matching *)

\* the body of a POST request has a truthy property of that name
BodyHas(req, name) == Truthy(Prop(req.body, name))

\* what JSON.parse makes of the `operations` part of a multipart body
OperationsOf(req) == jsonParse(Prop(req.body, "operations"))

\* The request carries no query: a GET without a `query` search parameter,
\* a POST whose body has neither a truthy `query` nor a truthy `operations`,
\* a multipart POST whose `operations` has no `query`, or another method.
NoQuery(req) ==
    \/ req.method = "GET" /\ "query" \notin DOMAIN req.searchParams
    \/ /\ req.method = "POST"
       /\ ~BodyHas(req, "query")
       /\ \/ ~BodyHas(req, "operations")
          \/ ~Truthy(Prop(OperationsOf(req), "query"))
    \/ req.method \notin {"GET", "POST"}

\* C12: parseGraphQLRequest returns undefined, and does not throw, for every
\* request that carries no query.
C12_NoQueryIsUndefined ==
    (pc = "analysed" /\ NoQuery(request)) => parsedResult = Undefined

\* a multipart request without a query whose map names a file part that is
\* missing was analysed
C12_Witness ==
    /\ pc = "analysed"
    /\ request.method = "POST"
    /\ OperationsOf(request) = Obj("variables" :> Obj("file" :> Null))
    /\ "map" \in DOMAIN request.body.f
    /\ jsonParse(request.body.f["map"]) = Obj("0" :> Paths(<<<<"variables", "file">>>>))
    /\ "0" \notin DOMAIN request.body.f
    /\ parsedResult = Undefined

\* the normalized input of the request, when it has one with a query
InputOf(req) == getGraphQLInput(req)

CarriesQuery(req) ==
    /\ InputOf(req).t = "input"
    /\ Truthy(InputOf(req).query)

\* what analysis of the query of the request fails with, if it fails
AnalysisOf(req) ==
    parseQuery(InputOf(req).query, InputOf(req).operationName,
               InputOf(req).variables)

SelectorMatches(selector, name) ==
    IF selector.t = "regexp"
    THEN RegExpTest(selector, IF name = Undefined THEN "" ELSE name.s)
    ELSE selector = name

\* C14: predicate returns true iff a parsed descriptor exists, its operation
\* is named or the handler's type is 'all', the request URL matches the
\* endpoint, the handler's type is 'all' or the descriptor's type, and the
\* selector matches the descriptor's operation name; false otherwise.
C14_PredicateIffAllMatch ==
    pc = "matched" =>
        matched = Bool(/\ parsedResult.t = "parsed"
                       /\ \/ parsedResult.operationName # Undefined
                          \/ handler.info.operationType = "all"
                       /\ \/ handler.endpoint = "*"
                          \/ handler.endpoint = request.url
                       /\ \/ handler.info.operationType = "all"
                          \/ handler.info.operationType = parsedResult.operationType
                       /\ SelectorMatches(handler.info.operationSelector,
                                          parsedResult.operationName))

\* a query handler with a pattern and an endpoint matched a named query
C14_Witness ==
    /\ pc = "matched"
    /\ matched = Bool(TRUE)
    /\ handler.info.operationType = "query"
    /\ handler.info.operationSelector = RegExp("^Get")
    /\ handler.endpoint = LocalUrl
    /\ parsedResult.operationName = Str("GetUser")

\* the descriptor is of an operation without a name
Anonymous(parsed) == parsed.t = "parsed" /\ parsed.operationName = Undefined

\* C15: for a handler whose type is not 'all', whatever its selector,
\* predicate on a descriptor without an operation name returns false and
\* warns instead of throwing; only an 'all' handler matches an anonymous
\* operation.
C15_AnonymousNeedsAll ==
    (pc = "matched" /\ Anonymous(parsedResult)) =>
        /\ handler.info.operationType # "all" =>
              /\ matched = Bool(FALSE)
              /\ console = <<[level |-> "warn",
                              message |-> AnonymousWarning(request)]>>
        /\ matched = Bool(TRUE) => handler.info.operationType = "all"

\* a query handler whose pattern matches everything met an anonymous query
C15_Witness ==
    /\ pc = "matched"
    /\ Anonymous(parsedResult)
    /\ parsedResult.operationType = "query"
    /\ handler.info.operationType = "query"
    /\ handler.info.operationSelector = RegExp(".*")
    /\ handler.endpoint = "*"
    /\ matched = Bool(FALSE)

\* C16: GraphQLHandler.parse and GraphQLHandler.test never let a failure of
\* the analysis through: when parseGraphQLRequest throws on the request,
\* parse logs the message and returns undefined, and test returns false.
C16_ParseFailureIsNoMatch ==
    (pc \in {"parsed", "tested"} /\ IsThrow(parseGraphQLRequest(request))) =>
        /\ console = <<[level |-> "error",
                        message |-> parseGraphQLRequest(request).msg]>>
        /\ pc = "parsed" => parsedResult = Undefined
        /\ pc = "tested" => matched = Bool(FALSE)

\* a handler was tested on a multipart request whose map names a missing file
C16_Witness ==
    /\ pc = "tested"
    /\ parseGraphQLRequest(request) = Throw("Given files do not have a key '0' .")
    /\ matched = Bool(FALSE)

\* the operation definitions of a document
OperationDefinitions(document) ==
    SelectSeq(document.definitions, isOperationDefinition)

\* C17: constructing a handler with a DocumentNode selector succeeds only
\* when the document has exactly one operation, which is named and of the
\* handler's operation type, and the selector is then that operation's name;
\* the constructor throws when the document has several operations, when its
\* operation is anonymous and when its type differs from the expected one.
C17_DocumentSelector ==
    (pc = "constructed" /\ isDocumentNode(registration.operationSelector)) =>
        LET operations == OperationDefinitions(registration.operationSelector)
        IN /\ handler.t = "handler" =>
                /\ Len(operations) = 1
                /\ operations[1].name # None
                /\ operations[1].operation = registration.operationType
                /\ handler.info.operationSelector = Str(operations[1].name)
                /\ handler.info.operationType = registration.operationType
           /\ (\/ Len(operations) > 1
               \/ \E j \in 1..Len(operations) : operations[j].name = None
               \/ \E j \in 1..Len(operations) :
                    operations[j].operation # registration.operationType)
                => IsThrow(handler)

\* a mutation handler was constructed from the document of the mutation Login
C17_Witness ==
    /\ pc = "constructed"
    /\ registration.operationSelector = parse(Str(LOGIN))
    /\ registration.operationType = "mutation"
    /\ handler.t = "handler"
    /\ handler.info.operationSelector = Str("Login")

\* a multipart POST whose `operations` carries a query and variables
IsMultipart(req) ==
    /\ req.method = "POST"
    /\ ~BodyHas(req, "query")
    /\ BodyHas(req, "operations")
    /\ Truthy(Prop(OperationsOf(req), "query"))
    /\ Truthy(Prop(OperationsOf(req), "variables"))

\* the map of a multipart request, as file key -> array of dot paths
MapOf(req) ==
    Or(jsonParse(Or(Prop(req.body, "map"), Str(""))), Obj(EmptyMap)).f

\* the listings of the map: the j-th dot path listed under a file key
Listings(req) ==
    UNION {{[key |-> key, j |-> j, segments |-> MapOf(req)[key].e[j].segments] :
                j \in 1..Len(MapOf(req)[key].e)} : key \in DOMAIN MapOf(req)}

\* what a path of segments designates from a value on, undefined when a
\* segment is absent
RECURSIVE Lookup(_, _)
Lookup(value, segments) ==
    IF segments = <<>> THEN value
    ELSE IF value.t \in {"object", "array"} /\ In(Head(segments), value)
    THEN Lookup(At(value, Head(segments)), Tail(segments))
    ELSE Undefined

\* the segment that names the j-th item of an array
IndexSegment(j) == <<"0", "1", "2">>[j]

\* the values of `before` at and below `path` are those of `after`, apart
\* from the places the designated paths name
RECURSIVE Kept(_, _, _, _)
Kept(before, after, path, designated) ==
    IF path \in designated THEN TRUE
    ELSE IF before.t = "object"
    THEN /\ after.t = "object"
         /\ \A k \in DOMAIN before.f :
                /\ k \in DOMAIN after.f
                /\ Kept(before.f[k], after.f[k], Append(path, k), designated)
    ELSE IF before.t = "array"
    THEN /\ after.t = "array"
         /\ Len(after.e) >= Len(before.e)
         /\ \A j \in 1..Len(before.e) :
                Kept(before.e[j], after.e[j], Append(path, IndexSegment(j)),
                     designated)
    ELSE after = before

\* every listed path designates the file of its key in the normalized
\* variables, and the other variables are those of `operations`
FilesAreAtTheirPaths(req, input) ==
    /\ \A l \in Listings(req) :
          Lookup(Obj("variables" :> input.variables), l.segments)
              = FilesOf(req.body)[l.key]
    /\ Kept(Prop(OperationsOf(req), "variables"), input.variables,
            <<"variables">>, {l.segments : l \in Listings(req)})

\* a is b or the beginning of b
IsPrefix(a, b) == Len(a) <= Len(b) /\ SubSeq(b, 1, Len(a)) = a

\* every path leads into `variables` and no listing names a place that
\* another listing names or goes through
WellFormedMap(req) ==
    /\ \A l \in Listings(req) : l.segments[1] = "variables"
    /\ \A l, m \in Listings(req) :
          l # m => ~IsPrefix(l.segments, m.segments)

\* C20 as stated: for a multipart POST whose `operations` carries a query
\* and variables, after normalization every dot path listed in `map` under a
\* file key K designates, inside the resulting variables, the file part keyed
\* K, and variables designated by no path keep the values of `operations`.
C20_EveryPathDesignatesItsFile ==
    (pc = "normalized" /\ IsMultipart(request) /\ parsedResult.t = "input")
        => FilesAreAtTheirPaths(request, parsedResult)

\* C20 amended: the same, for a map whose paths all lead into `variables`
\* and in which no path is listed twice or is the beginning of another path.
C20_Amended ==
    (pc = "normalized" /\ IsMultipart(request) /\ parsedResult.t = "input"
     /\ WellFormedMap(request))
        => FilesAreAtTheirPaths(request, parsedResult)

\* two files were put at the two places of an array of the variables, and
\* the variable beside the array kept its value
C20_Witness ==
    /\ pc = "normalized"
    /\ IsMultipart(request)
    /\ WellFormedMap(request)
    /\ parsedResult.t = "input"
    /\ parsedResult.variables =
        Obj(("file" :> Null)
            @@ ("files" :> Arr(<<File("a.txt"), File("b.txt")>>))
            @@ ("name" :> Str("avatar")))

\* the segments of a path lead, one property after the other, from a value
\* to a property of an object or an item of an array
RECURSIVE HasPath(_, _)
HasPath(value, segments) ==
    \/ segments = <<>>
    \/ /\ value.t \in {"object", "array"}
       /\ In(Head(segments), value)
       /\ HasPath(At(value, Head(segments)), Tail(segments))

\* the segments of a listing before the last one
Intermediate(l) == SubSeq(l.segments, 1, Len(l.segments) - 1)

\* the operations object the paths of the map are walked in
OperationsObject(req) == Obj("variables" :> Prop(OperationsOf(req), "variables"))

\* the map names a file key that is not among the file parts of the body
MissingKeys(req) == DOMAIN MapOf(req) \ DOMAIN FilesOf(req.body)

\* the listings with an intermediate segment that is not a property of the
\* object reached so far
BrokenListings(req) ==
    {l \in Listings(req) : ~HasPath(OperationsObject(req), Intermediate(l))}

\* C21: normalization of a multipart POST whose `operations` carries a query
\* and variables fails with an explicit error, and yields no input, whenever
\* `map` names a file key that is not among the file parts ('Given files do
\* not have a key ...') or a dot path has an intermediate segment that is not
\* a property of the object reached so far ('Property ... is not in
\* operations.'); an absent final segment is tolerated and created.
C21_ExplicitMultipartErrors ==
    (pc = "normalized" /\ IsMultipart(request)) =>
        IF MissingKeys(request) # {} \/ BrokenListings(request) # {}
        THEN \/ \E key \in MissingKeys(request) :
                  parsedResult =
                      Throw("Given files do not have a key '" \o key \o "' .")
             \/ \E l \in BrokenListings(request) :
                  parsedResult =
                      Throw("Property '" \o join(Intermediate(l), ",")
                            \o "' is not in operations.")
        ELSE parsedResult.t = "input"

\* the document of the query the request carries
DocumentOf(req) == parse(InputOf(req).query)

\* the operation name the request supplies, None when it supplies none
SuppliedName(req) ==
    IF InputOf(req).operationName.t = "string"
    THEN InputOf(req).operationName.s ELSE None

\* the operations of a document that a supplied name designates: the ones of
\* that name, or every operation when no name is supplied
Designated(document, name) ==
    {j \in 1..Len(OperationDefinitions(document)) :
        \/ IsNullish(name)
        \/ /\ name.t = "string"
           /\ OperationDefinitions(document)[j].name # None
           /\ OperationDefinitions(document)[j].name = name.s}

\* the request carries a query that parses, and its operation name
\* designates one operation of the document
SelectsOne(req) ==
    /\ CarriesQuery(req)
    /\ ~IsThrow(DocumentOf(req))
    /\ Cardinality(Designated(DocumentOf(req), InputOf(req).operationName)) = 1

\* the operation the request selects
SelectedOperation(req) ==
    OperationDefinitions(DocumentOf(req))[
        CHOOSE j \in Designated(DocumentOf(req), InputOf(req).operationName) : TRUE]

\* the variables the request supplies
SuppliedVariables(req) ==
    IF InputOf(req).variables.t = "object" THEN InputOf(req).variables
    ELSE Obj(EmptyMap)

\* the required variables of the selected operation that the request does
\* not supply
MissingRequired(req) ==
    {v \in Range(SelectedOperation(req).variableDefinitions) :
        /\ v.nonNull
        /\ v.defaultValue = Undefined
        /\ v.name \notin DOMAIN SuppliedVariables(req).f}

\* C22: a request whose selected operation declares a required variable
\* (non-null, no default) that its variables do not provide is rejected:
\* parseGraphQLRequest throws the wrapped error 'Variable "$x" of required
\* type "T!" was not provided.'; when every required variable is provided
\* the variables of the descriptor equal the supplied ones.
C22_RequiredVariables ==
    (pc = "analysed" /\ SelectsOne(request)) =>
        IF MissingRequired(request) # {}
        THEN \E v \in MissingRequired(request) :
                parsedResult =
                    ParseError(request,
                               "Variable \"$" \o v.name \o "\" of required type \""
                               \o TypeText(v) \o "\" was not provided.")
        ELSE /\ parsedResult.t = "parsed"
             /\ parsedResult.variables = SuppliedVariables(request)

\* what coercion makes of the variables a request supplies for an operation
CoercionOf(req, operation) ==
    coerceVariableValues(operation.variableDefinitions, SuppliedVariables(req),
                         1, [coerced |-> EmptyMap, errors |-> <<>>])

\* analysis of the request resolved the operation: the descriptor has its
\* type and its name, undefined for an operation without a name
Resolved(parsed, operation) ==
    /\ parsed.t = "parsed"
    /\ parsed.operationType = operation.operation
    /\ parsed.operationName =
         (IF operation.name = None THEN Undefined ELSE Str(operation.name))

\* analysis of the request resolved the operation, or failed on the
\* variables the request supplies for it
ResolvedOrRejected(req, parsed, operation) ==
    IF CoercionOf(req, operation).errors = <<>>
    THEN Resolved(parsed, operation)
    ELSE parsed = ParseError(req, join(CoercionOf(req, operation).errors, "\n"))

\* the request carries a query whose document has one operation, and no
\* operation name
SingleOperation(req) ==
    /\ CarriesQuery(req)
    /\ ~IsThrow(DocumentOf(req))
    /\ Len(OperationDefinitions(DocumentOf(req))) = 1
    /\ IsNullish(InputOf(req).operationName)

\* C23 as stated: when the document has exactly one operation and the
\* request supplies no operation name, analysis selects that operation: the
\* descriptor has its type and its name (undefined if it is anonymous).
C23_SingleOperationSelected ==
    (pc = "analysed" /\ SingleOperation(request)) =>
        Resolved(parsedResult, OperationDefinitions(DocumentOf(request))[1])

\* C23 amended: the only operation is selected whenever its variables
\* coerce; when they do not, analysis throws the wrapped coercion errors.
C23_Amended ==
    (pc = "analysed" /\ SingleOperation(request)) =>
        ResolvedOrRejected(request, parsedResult,
                           OperationDefinitions(DocumentOf(request))[1])

\* an anonymous single operation was selected
C23_Witness ==
    /\ pc = "analysed"
    /\ SingleOperation(request)
    /\ OperationDefinitions(DocumentOf(request))[1].name = None
    /\ parsedResult.t = "parsed"
    /\ parsedResult.operationName = Undefined

\* the request carries a query whose document has several operations
SeveralOperations(req) ==
    /\ CarriesQuery(req)
    /\ ~IsThrow(DocumentOf(req))
    /\ Len(OperationDefinitions(DocumentOf(req))) > 1

\* some operation of the document of the request has no name
HasAnonymous(req) ==
    \E j \in 1..Len(OperationDefinitions(DocumentOf(req))) :
        OperationDefinitions(DocumentOf(req))[j].name = None

\* C24: when the document has more than one operation and at least one of
\* them is anonymous, analysis fails whatever operation name the request
\* supplies, a name equal to one of the named operations included.
C24_AnonymousAmongSeveralFails ==
    (pc = "analysed" /\ SeveralOperations(request) /\ HasAnonymous(request)) =>
        IsThrow(parsedResult)

\* the request supplies the name of an operation of its document
NamesAnOperation(req) ==
    /\ ~IsNullish(InputOf(req).operationName)
    /\ Designated(DocumentOf(req), InputOf(req).operationName) # {}

\* C25 as stated: when the document has several operations, all named,
\* analysis selects the operation whose name equals the supplied operation
\* name and reports its type and name; when no operation name is supplied
\* or the supplied name equals none of them, analysis fails with an error.
C25_SelectedByName ==
    (pc = "analysed" /\ SeveralOperations(request) /\ ~HasAnonymous(request)) =>
        IF NamesAnOperation(request)
        THEN Resolved(parsedResult, SelectedOperation(request))
        ELSE IsThrow(parsedResult)

\* C25 amended: the operation of the supplied name is selected whenever its
\* variables coerce, and analysis throws the wrapped coercion errors when
\* they do not; without a name, or with a name no operation has, it throws
\* the error of the selection.
C25_Amended ==
    (pc = "analysed" /\ SeveralOperations(request) /\ ~HasAnonymous(request)) =>
        IF NamesAnOperation(request)
        THEN ResolvedOrRejected(request, parsedResult, SelectedOperation(request))
        ELSE IF IsNullish(InputOf(request).operationName)
        THEN parsedResult =
                ParseError(request,
                           "Must provide operation name if query contains multiple operations.")
        ELSE parsedResult =
                ParseError(request,
                           "Unknown operation named \""
                           \o SuppliedName(request) \o "\".")

\* the second of two named operations was selected by its name
C25_Witness ==
    /\ pc = "analysed"
    /\ SeveralOperations(request)
    /\ ~HasAnonymous(request)
    /\ NamesAnOperation(request)
    /\ SelectedOperation(request) = OperationDefinitions(DocumentOf(request))[2]
    /\ Resolved(parsedResult, SelectedOperation(request))

----------------------------------------------------------------------------
(* Response assembly: ctx.data and ctx.errors                              *)

\* most contributions applied to one response
MaxContributions == 3

\* a payload handed to data(): the object graph whose root is the payload
Graph(heap) == [t |-> "graph", heap |-> heap]

\* the objects a value is read in: those of the payload, none for the others
HeapOf(value) == IF value.t = "graph" THEN value.heap ELSE <<>>

\* a value in memory written out as a tree, the objects it refers to in
\* their place; a property that holds undefined stays a property
RECURSIVE ObjectOf(_, _)
ObjectOf(heap, value) ==
    CASE value.t = "graph" -> ObjectOf(value.heap, Ref(Root))
      [] value.t = "ref" ->
            Obj([k \in DOMAIN heap[value.o] |-> ObjectOf(heap, heap[value.o][k])])
      [] value.t = "object" ->
            Obj([k \in DOMAIN value.f |-> ObjectOf(heap, value.f[k])])
      [] value.t = "array" ->
            Arr([j \in 1..Len(value.e) |-> ObjectOf(heap, value.e[j])])
      [] OTHER -> value

\* the value JSON.parse(JSON.stringify(value)) gives: a property that holds
\* undefined is left out, an array item that is undefined becomes null
RECURSIVE stringify(_)
stringify(value) ==
    CASE value.t = "object" ->
            Obj([k \in {x \in DOMAIN value.f : value.f[x] # Undefined} |->
                    stringify(value.f[k])])
      [] value.t = "array" ->
            Arr([j \in 1..Len(value.e) |->
                    IF value.e[j] = Undefined THEN Null
                    ELSE stringify(value.e[j])])
      [] OTHER -> value

\* mergeRight(left, right): the properties of right are put over those of
\* left, two objects under one key are merged, anything else is replaced
RECURSIVE mergeRight(_, _)
mergeRight(left, right) ==
    Obj([k \in DOMAIN left.f \cup DOMAIN right.f |->
            IF k \notin DOMAIN right.f THEN left.f[k]
            ELSE IF /\ k \in DOMAIN left.f
                    /\ left.f[k].t = "object"
                    /\ right.f[k].t = "object"
            THEN mergeRight(left.f[k], right.f[k])
            ELSE right.f[k]])

\* a response: its body and its headers
Response(body, headers) == [t |-> "response", body |-> body, headers |-> headers]

\* json(body)(res)
json(body, res) ==
    Response(Json(stringify(body)),
             ("content-type" :> "application/json") @@ res.headers)

\* the data of a contribution: the projection of the payload when a payload
\* object and a document are given, the payload otherwise
dataOf(given, document, opName, variableValues) ==
    IF Truthy(given) /\ given.t = "graph" /\ Truthy(document)
    THEN pickOperationFields(given.heap, document.definitions,
                             IF Truthy(opName) THEN opName.s ELSE None,
                             variableValues, dummySchema)
    ELSE given

\* data(payload, document, operationName, variables)(res), `given` being
\* the payload
contextData(given, document, opName, variableValues, res) ==
    Bind(dataOf(given, document, opName, variableValues), LAMBDA picked :
        IF IsThrow(picked) THEN picked
        ELSE json(mergeRight(Or(jsonParse(res.body), Obj(EmptyMap)),
                             Obj("data" :> ObjectOf(HeapOf(given), picked))),
                  res))

\* errors(errorsList)(res)
contextErrors(errorsList, res) ==
    IF IsNullish(errorsList) THEN res
    ELSE json(mergeRight(Or(jsonParse(res.body), Obj(EmptyMap)),
                         Obj("errors" :> errorsList)),
              res)

----------------------------------------------------------------------------
(* The contributions *)

\* query { name description }
NameDescriptionQuery ==
    DocumentNode(<<Operation("query", None,
                             <<Field("name", <<>>), Field("description", <<>>)>>)>>)

\* query { user { id name } tags }
UserQuery ==
    DocumentNode(<<Operation("query", None,
                             <<Field("user", <<Field("id", <<>>),
                                               Field("name", <<>>)>>),
                               Field("tags", <<>>)>>)>>)

\* { name: 'msw' }, { description: 'API mocking library' }, { name: 'mocks' }
FlatPayloads ==
    {Graph(<<("name" :> Str("msw"))>>),
     Graph(<<("description" :> Str("API mocking library"))>>),
     Graph(<<("name" :> Str("mocks"))>>)}

\* { user: { id: 'a1' }, tags: ['a', 'b'] }, { user: { name: 'Jack' } },
\* { user: null, tags: ['c'] }
NestedPayloads ==
    {Graph(<<("user" :> Ref(2)) @@ ("tags" :> Arr(<<Str("a"), Str("b")>>)),
             ("id" :> Str("a1"))>>),
     Graph(<<("user" :> Ref(2)), ("name" :> Str("Jack"))>>),
     Graph(<<("user" :> Null) @@ ("tags" :> Arr(<<Str("c")>>))>>)}

DataContribution(given, document, opName) ==
    [kind |-> "data", payload |-> given, document |-> document,
     operationName |-> opName, variables |-> <<>>]

ErrorsContribution(errorsList) ==
    [kind |-> "errors", payload |-> errorsList, document |-> Undefined,
     operationName |-> Undefined, variables |-> <<>>]

Message(text) == Obj("message" :> Str(text))

Contributions ==
    {DataContribution(p, Undefined, Undefined) :
        p \in {Undefined, Null} \cup FlatPayloads \cup NestedPayloads}
    \cup {DataContribution(p, NameDescriptionQuery, Undefined) :
            p \in {Undefined} \cup FlatPayloads}
    \cup {DataContribution(p, UserQuery, Undefined) : p \in NestedPayloads}
    \cup {DataContribution(Graph(<<("user" :> Null)>>),
                           DocumentNode(OneNamedOperation), Undefined),
          DataContribution(Graph(<<("user" :> Null)>>),
                           DocumentNode(OneNamedOperation), Str("A"))}
    \cup {ErrorsContribution(e) :
            e \in {Undefined, Null,
                   Arr(<<Message("exceeds the limit of awesomeness")>>),
                   Arr(<<Message("Error message"), Message("Second error")>>)}}

----------------------------------------------------------------------------
(* The transformers applied to one response *)

InitData ==
    /\ response = Response(Null, EmptyMap)
    /\ applied = <<>>
    /\ ProjectorIdle
    /\ RequestIdle
    /\ pc = "response"

\* data(payload, document, operationName, variables) applied to the response
Data ==
    /\ pc = "response"
    /\ Len(applied) < MaxContributions
    /\ \E c \in {x \in Contributions : x.kind = "data"} :
          /\ response' = contextData(c.payload, c.document, c.operationName,
                                     c.variables, response)
          /\ applied' = Append(applied, c)
          /\ pc' = IF IsThrow(response') THEN "thrown" ELSE "response"
    /\ UNCHANGED <<projectorVars, requestVars>>

\* errors(errorsList) applied to the response
Errors ==
    /\ pc = "response"
    /\ Len(applied) < MaxContributions
    /\ \E c \in {x \in Contributions : x.kind = "errors"} :
          /\ response' = contextErrors(c.payload, response)
          /\ applied' = Append(applied, c)
    /\ pc' = "response"
    /\ UNCHANGED <<projectorVars, requestVars>>

NextData == Data \/ Errors

SpecData == InitData /\ [][NextData]_vars

----------------------------------------------------------------------------
(* Claims about response assembly *)

\* the right-merge of two objects: a key of both that holds an object in
\* both is merged, any other key of the right object has the right value,
\* the remaining keys have the left value
RECURSIVE RightMerge(_, _)
RightMerge(left, right) ==
    Obj([k \in DOMAIN left.f \cup DOMAIN right.f |->
            CASE k \notin DOMAIN right.f -> left.f[k]
              [] k \notin DOMAIN left.f -> right.f[k]
              [] left.f[k].t = "object" /\ right.f[k].t = "object" ->
                    RightMerge(left.f[k], right.f[k])
              [] OTHER -> right.f[k]])

\* what a contribution brings to the body: the error list under `errors`,
\* or under `data` the payload, projected on the operation of the document
\* when there is one (a field the payload lacks has no key)
Brings(c) ==
    IF c.kind = "errors" THEN Obj("errors" :> c.payload)
    ELSE IF c.document = Undefined
    THEN Obj("data" :> ObjectOf(<<>>, c.payload))
    ELSE LET defs == extractDefinitions(c.document.definitions)
             key == IF Truthy(c.operationName) THEN c.operationName.s
                    ELSE anonymousOperationKey
         IN Obj("data" :>
                ObjectOf(c.payload.heap,
                         Projection(c.payload.heap, defs.fragments, c.variables,
                                    Root, defs.operations[key].selectionSet)))

\* the right-merge of the first n contributions of a sequence
RECURSIVE Merged(_, _)
Merged(contributions, n) ==
    IF n = 0 THEN Obj(EmptyMap)
    ELSE RightMerge(Merged(contributions, n - 1), Brings(contributions[n]))

\* contributions were applied to the response, each with a payload
Contributed ==
    /\ pc = "response"
    /\ applied # <<>>
    /\ \A j \in 1..Len(applied) : ~IsNullish(applied[j].payload)

\* C18: after any sequence of data and errors contributions applied to one
\* response, the body is the right-merge of all of them: each data
\* contribution is deep-merged under `data`, the keys other contributions
\* set are preserved, and on a leaf two contributions share the one applied
\* later wins, arrays and non-object values being replaced.
C18_BodyIsRightMerge ==
    Contributed => response.body = Json(Merged(applied, Len(applied)))

\* C19: a contribution whose payload is undefined or null leaves the body
\* and the content-type header of the response as they were; every other
\* contribution sets content-type to application/json.
C19_NullishIsNoOp ==
    [][Len(applied') > Len(applied) =>
        IF IsNullish(applied'[Len(applied')].payload)
        THEN response' = response
        ELSE response'.t = "response" =>
                /\ "content-type" \in DOMAIN response'.headers
                /\ response'.headers["content-type"] = "application/json"]_vars

----------------------------------------------------------------------------
(* A handler resolves a request: createContext                             *)

\* createContext(parsedRequest).data(payload)(res), `given` being the
\* payload
createContext(parsedRequest, given, res) ==
    contextData(given, parsedRequest.document, parsedRequest.operationName,
                parsedRequest.variables.f, res)

\* the requests a handler resolves: the POST requests with a JSON body, and
\* requests for a document with an anonymous operation and an operation
\* that has the name of the reserved key
ResolvedRequests ==
    {Request("POST", LocalUrl, EmptyMap, b) : b \in JsonBodies}
    \cup {Request("POST", LocalUrl, EmptyMap,
                  Obj(("query" :> Str(RESERVED_AND_SHORTHAND)) @@ o)) :
            o \in {EmptyMap, ("operationName" :> Str(anonymousOperationKey)),
                   ("operationName" :> Str("Login"))}}

\* { user: { id: 'abc-123', firstName: 'John' } }, { user: null }
ResolverPayloads ==
    {Graph(<<("user" :> Ref(2)),
             ("id" :> Str("abc-123")) @@ ("firstName" :> Str("John"))>>),
     Graph(<<("user" :> Null)>>)}

InitRun ==
    /\ request \in ResolvedRequests
    /\ payload \in ResolverPayloads
    /\ response = Response(Null, EmptyMap)
    /\ applied = <<>>
    /\ registration = NotCalled
    /\ handler = NotCalled
    /\ parsedResult = NotCalled
    /\ matched = NotCalled
    /\ console = <<>>
    /\ documentNode = NotCalled
    /\ operationName = NotCalled
    /\ variables = NotCalled
    /\ schema = NotCalled
    /\ result = NotCalled
    /\ repeated = NotCalled
    /\ pc = "intercepted"

\* handler.parse(request), as handler.run calls it
RunParse ==
    /\ pc = "intercepted"
    /\ \E outcome \in {handlerParse(request)} :
          /\ parsedResult' = outcome.value
          /\ console' = console \o outcome.console
    /\ pc' = "run parsed"
    /\ UNCHANGED <<request, registration, handler, matched, projectorVars,
                   responseVars>>

\* the resolver responds with res(ctx.data(payload)), ctx being
\* createContext(parsedResult); result is the data of the contribution
RunData ==
    /\ pc = "run parsed"
    /\ parsedResult.t = "parsed"
    /\ result' = dataOf(payload, parsedResult.document,
                        parsedResult.operationName, parsedResult.variables.f)
    /\ response' = createContext(parsedResult, payload, response)
    /\ pc' = "responded"
    /\ UNCHANGED <<payload, documentNode, operationName, variables, schema,
                   repeated, applied, requestVars>>

NextRun == RunParse \/ RunData

SpecRun == InitRun /\ [][NextRun]_vars

----------------------------------------------------------------------------
(* Claims about a handler resolving a request *)

\* the projection of the payload against an operation of the document of
\* the descriptor
ProjectionOnto(operation) ==
    pickSelectionSet(HeapOf(payload), "data", Root, operation.selectionSet,
                     dummySchema,
                     extractDefinitions(parsedResult.document.definitions).fragments,
                     parsedResult.variables.f,
                     getRootType(dummySchema, operation.operation), 0)

\* C28: analysis and projection agree on the operation: for every request
\* that GraphQLHandler.parse turns into a descriptor, the data helper of
\* the context of the handler does not fail to find the operation, and it
\* projects the payload against the operation analysis resolved, the one
\* whose type and name the descriptor has.
C28_AnalysisAndProjectionAgree ==
    pc = "responded" =>
        /\ Resolved(parsedResult, SelectedOperation(request))
        /\ result.t = "object"
        /\ result = ProjectionOnto(SelectedOperation(request))

====
